---- MODULE Spec2Model ----
(***************************************************************************)
(* A model of the job orchestration plane of the Z-Image platform:         *)
(*   - the status reconciler of the image service (GET /tasks/{id} and     *)
(*     GET /images/inpaint/tasks/{id}),                                    *)
(*   - the API gateway: rate limiting, the (unused) auth middleware and    *)
(*     the upstream proxy.                                                 *)
(* Each subsystem has its own specification over the shared variables.     *)
(***************************************************************************)
EXTENDS Integers, Sequences, FiniteSets, TLC

VARIABLES
    now,        \* the wall clock (datetime.utcnow / time.time), in seconds
    tasks,      \* committed GenerationTask / InpaintTask rows, by task id
    images,     \* committed Image rows
    history,    \* committed EditHistory rows
    celery,     \* the queue's result backend, by task id
    poll,       \* each poller's request: position, ORM objects of its session
    lock,       \* the row lock on each task row (held by a flushed UPDATE)
    nextUuid,   \* source of uuid4 defaults
    lastResp,   \* the response each poller received last
    requests,   \* RateLimitMiddleware.requests: admission times per client
    slots,      \* the gateway's requests in flight
    rl,         \* per client: what the limiter was seen to do (history)
    issued,     \* the tokens the auth service has issued
    lastGw,     \* the gateway request handled last, and what became of it
    authOut,    \* the outcome of the last AuthMiddleware.dispatch
    slJobs,     \* background / SAM / style submissions: the ids of each
    slQueue,    \* the queue's result backend for them, by queue id
    slResp,     \* the last response of each one's status endpoint
    slNext,     \* source of uuid4 values for them
    wk,         \* one job on the worker: its message, attempts, queue entry
    wkStore,    \* the keys of the objects the worker has put in the store
    wkLog,      \* the executions that returned: prompt given to the model, payload
    edImages,   \* editing: the Image rows
    edTasks,    \* the InpaintTask rows
    edJobs,     \* the inpaint_image jobs sent
    edHist,     \* the EditHistory rows
    edStore,    \* the mask objects in the store: name -> bytes
    edNext,     \* source of uuid4 values
    edResp,     \* status of the last response of an editing handler
    sbPc,       \* submission: where the handler of each task's POST is
    sbRow,      \* the task row: absent, flushed (not committed), pending, completed
    sbQueue,    \* the job: none, queued, running, done
    sbStore,    \* whether the worker has stored artifacts of the task
    auUsers,    \* auth service: the committed rows of the users table
    auReg,      \* the register requests in progress
    auIssued,   \* the tokens the auth service has handed out
    auResp,     \* its last response to a login or refresh request
    auNext,     \* ids given to new users so far
    pgPoll,     \* progress: the last answer of GET /tasks/{id} and its inputs
    gnRows,     \* POST /generate: the GenerationTask rows created
    gnJobs,     \* the generate_image jobs sent
    gnResp,     \* the last request and the status of its answer
    gpuKey,     \* the key ml_worker:gpu_stats: its value and expiry, or None
    gpuLast,    \* the time of the last write of the key, or None
    gpuResp,    \* the last answer of GET /stats/ml/status
    px,         \* proxy: the upstream call of the request being proxied
    pxSent,     \* what the gateway has sent to the client for it
    urImages,   \* object store URLs: the url column of the Image rows
    urFetched,  \* the URLs the worker has requested, by task kind
    urPayloads, \* the URLs in the result payloads returned, by task kind
    pj,         \* one SAM / background / style job on the worker
    pl,         \* worker process: the pipeline class and accessor state, by kind
    plObj,      \* the objects the process has created so far
    plRun,      \* the job execution in progress, or the one that ended last
    plPool,     \* the GPU memory pool: "empty" or "cached"
    plSeen,     \* the values the accessors have returned, by kind
    rjJobs,     \* the background / SAM / style jobs sent for stored images
    rjResp,     \* the status of the last answer to such a submission
    gaImages,   \* gallery: the committed Image rows
    gaReq,      \* the gallery request each session is serving
    gaResp,     \* the status of each session's last answer
    gaTrail     \* per image: the favorite toggles committed one after another

pollVars == <<tasks, images, history, celery, poll, lock, nextUuid, lastResp>>
rateVars == <<requests, slots, rl>>
gwVars == <<issued, lastGw, authOut>>
slVars == <<slJobs, slQueue, slResp, slNext>>
wkVars == <<wk, wkStore, wkLog>>
coreVars == <<pollVars, rateVars, gwVars>>
edVars == <<edImages, edTasks, edJobs, edHist, edStore, edNext, edResp>>
sbVars == <<sbPc, sbRow, sbQueue, sbStore>>
auVars == <<auUsers, auReg, auIssued, auResp, auNext>>
pgVars == <<pgPoll, gnRows, gnJobs, gnResp>>
gpVars == <<gpuKey, gpuLast, gpuResp>>
pxVars == <<px, pxSent>>
urVars == <<urImages, urFetched, urPayloads>>
pjVars == <<pj>>
plVars == <<pl, plObj, plRun, plPool, plSeen>>
rjVars == <<rjJobs, rjResp>>
gaVars == <<gaImages, gaReq, gaResp, gaTrail>>
lateVars == <<pjVars, plVars, rjVars, gaVars>>
moreVars == <<auVars, pgVars, gpVars, pxVars, urVars, lateVars>>
extVars == <<slVars, wkVars, edVars, sbVars, moreVars>>
nonSlVars == <<coreVars, wkVars, edVars, sbVars, moreVars>>
nonWkVars == <<coreVars, slVars, edVars, sbVars, moreVars>>
nonEdVars == <<coreVars, slVars, wkVars, sbVars, moreVars>>
nonSbVars == <<coreVars, slVars, wkVars, edVars, moreVars>>
nonAuVars == <<coreVars, slVars, wkVars, edVars, sbVars, pgVars, gpVars, pxVars, urVars, lateVars>>
nonPgVars == <<coreVars, slVars, wkVars, edVars, sbVars, auVars, gpVars, pxVars, urVars, lateVars>>
nonGpVars == <<coreVars, slVars, wkVars, edVars, sbVars, auVars, pgVars, pxVars, urVars, lateVars>>
nonPxVars == <<coreVars, slVars, wkVars, edVars, sbVars, auVars, pgVars, gpVars, urVars, lateVars>>
nonUrVars == <<coreVars, slVars, wkVars, edVars, sbVars, auVars, pgVars, gpVars, pxVars, lateVars>>
earlyVars == <<coreVars, slVars, wkVars, edVars, sbVars, auVars, pgVars, gpVars, pxVars, urVars>>
nonPjVars == <<earlyVars, plVars, rjVars, gaVars>>
nonPlVars == <<earlyVars, pjVars, rjVars, gaVars>>
nonRjVars == <<earlyVars, pjVars, plVars, gaVars>>
nonGaVars == <<earlyVars, pjVars, plVars, rjVars>>
nonPollVars == <<rateVars, gwVars, extVars>>

-----------------------------------------------------------------------------
(* Bounds *)

MaxTime == 2            \* the clock stops here
MaxImages == 2          \* most images in one result payload

Pollers == {"p1", "p2"}             \* concurrent GET requests
GenTaskIds == {"gen1"}
InpTaskIds == {"inp1"}
TaskIds == GenTaskIds \cup InpTaskIds

None == <<>>                        \* Python None / SQL NULL
Some(x) == <<x>>

OrigImageId == <<"orig", 1>>        \* an image already in the gallery

-----------------------------------------------------------------------------
(* Rows *)

TaskStatus == {"pending", "processing", "completed", "failed"}

\* A task row that does not exist yet.
AbsentRow ==
    [status |-> "absent", result |-> None, error |-> None, started_at |-> None,
     completed_at |-> None, mask_object_name |-> None, celery_task_id |-> None,
     original_image_id |-> None]

\* generate.py 40-52, 71 / inpaint.py 62-75, 96: the row a submission creates.
NewTaskRow(t) ==
    [status |-> "pending", result |-> None, error |-> None, started_at |-> None,
     completed_at |-> None, mask_object_name |-> None, celery_task_id |-> Some(t),
     original_image_id |-> IF t \in InpTaskIds THEN Some(OrigImageId) ELSE None]

\* The entries of a worker's result payload: the worker's uuid4 per image.
ImageEntries(t, k) == [i \in 1..k |-> [id |-> <<t, i>>, object_name |-> <<t, i>>]]

MaskKey(t) == <<"mask", t>>

\* The values a finished queue entry can hold.
CompletedResult(t, k) ==
    [isdict |-> TRUE, status |-> "completed", images |-> ImageEntries(t, k),
     error |-> None,
     mask_object_name |-> IF t \in InpTaskIds THEN Some(MaskKey(t)) ELSE None]
FailedResult(t) ==
    [isdict |-> TRUE, status |-> "failed", images |-> <<>>,
     error |-> Some("worker error"), mask_object_name |-> None]
RaisedResult(t) ==
    [isdict |-> FALSE, status |-> "exception", images |-> <<>>,
     error |-> Some("exception"), mask_object_name |-> None]
NoResult ==
    [isdict |-> FALSE, status |-> "none", images |-> <<>>, error |-> None,
     mask_object_name |-> None]

IdlePoll ==
    [pc |-> "idle", task |-> "gen1", loaded |-> AbsentRow, orm |-> AbsentRow,
     branch |-> "none"]

NoResp == [code |-> 0, status |-> "none"]

-----------------------------------------------------------------------------
(* The queue client *)

Ready(c) == c.state \in {"SUCCESS", "FAILURE"}
Successful(c) == c.state = "SUCCESS"

-----------------------------------------------------------------------------
(* The status reconciler: what a poll does to the ORM object it loaded *)

IsActive(row) ==
    row.status \in {"pending", "processing"} /\ row.celery_task_id # None

\* tasks.py 100-103 / inpaint.py 206-209
MarkStarted(row, t) ==
    [row EXCEPT !.status = "processing",
                !.started_at = IF row.started_at = None THEN Some(t) ELSE @]

\* tasks.py 59-103: the generation task as the handler leaves it.
GenReconcileRow(row, c, t) ==
    IF ~IsActive(row) THEN row
    ELSE IF Ready(c) THEN
        IF Successful(c) THEN
            IF c.result.status = "failed"
            THEN [row EXCEPT !.completed_at = Some(t), !.status = "failed",
                             !.error = c.result.error, !.result = Some(c.result)]
            ELSE [row EXCEPT !.completed_at = Some(t), !.status = "completed",
                             !.result = Some(c.result)]
        ELSE [row EXCEPT !.status = "failed", !.error = c.result.error,
                         !.completed_at = Some(t)]
    ELSE IF c.state = "STARTED" THEN MarkStarted(row, t)
    ELSE row

\* tasks.py 74-92: which result makes the handler add Image objects.
GenBranch(row, c) ==
    IF IsActive(row) /\ Ready(c) /\ Successful(c) /\ c.result.status # "failed"
    THEN "completed" ELSE "none"

\* inpaint.py 136-210: the inpaint task as the handler leaves it.
InpReconcileRow(row, c, t) ==
    IF ~IsActive(row) THEN row
    ELSE IF Ready(c) THEN
        IF ~c.result.isdict THEN row
        ELSE IF c.result.status = "completed"
        THEN [row EXCEPT !.status = "completed", !.result = c.result.images,
                         !.mask_object_name = c.result.mask_object_name,
                         !.completed_at = Some(t)]
        ELSE IF c.result.status = "failed"
        THEN [row EXCEPT !.status = "failed", !.error = c.result.error,
                         !.completed_at = Some(t)]
        ELSE row
    ELSE IF c.state = "STARTED" THEN MarkStarted(row, t)
    ELSE row

\* inpaint.py 141-210: the branch taken; every branch named here awaits db.flush().
InpBranch(row, c) ==
    IF ~IsActive(row) THEN "none"
    ELSE IF Ready(c) THEN
        IF c.result.isdict /\ c.result.status = "completed" THEN "completed"
        ELSE IF c.result.isdict /\ c.result.status = "failed" THEN "failed"
        ELSE "none"
    ELSE IF c.state = "STARTED" /\ row.started_at = None THEN "started"
    ELSE "none"

-----------------------------------------------------------------------------
(* The rows a completing poll adds to its session *)

SeqToSet(s) == {s[i] : i \in DOMAIN s}

\* tasks.py 81-92: Image.id is the column default (a fresh uuid4).
GenImageId(entry, n) == <<"db", n>>

GenImageRows(t, entries, base) ==
    {[id |-> GenImageId(entries[i], base + i), task_id |-> Some(t),
      inpaint_task_id |-> None, object_name |-> entries[i].object_name]
        : i \in DOMAIN entries}

\* A variant of InpImageId that leaves Image.id to the column default, as the
\* generation reconciler does.
InpImageIdDefault(entry, n) == <<"db", n>>

\* inpaint.py 154-171: Image.id is the id the worker gave the image.
InpImageId(entry, n) == entry.id

InpImageRows(t, entries, base) ==
    {[id |-> InpImageId(entries[i], base + i), task_id |-> None,
      inpaint_task_id |-> Some(t), object_name |-> entries[i].object_name]
        : i \in DOMAIN entries}

\* inpaint.py 180-198
EditHistoryRows(t, row, entries, base) ==
    {[id |-> <<"db", base + i>>, original_image_id |-> row.original_image_id,
      edited_image_id |-> Some(entries[i].id), inpaint_task_id |-> Some(t),
      edit_type |-> "inpaint", mask_object_name |-> row.mask_object_name]
        : i \in DOMAIN entries}

\* The entries whose rows the session of poller p holds.
Entries(p) ==
    IF poll[p].branch # "completed" THEN <<>>
    ELSE IF poll[p].task \in GenTaskIds THEN poll[p].orm.result[1].images
    ELSE poll[p].orm.result

\* images.id is the primary key of the table (models/image.py 14).
PrimaryKeyConflict(rows) == \E r \in rows : \E im \in images : im.id = r.id

-----------------------------------------------------------------------------
(* The session: the unit of work flushed and committed by get_db *)

\* The UPDATE a flush emits sets the columns whose value the handler changed.
ApplyUpdate(row, loaded, orm) ==
    [f \in DOMAIN row |-> IF orm[f] # loaded[f] THEN orm[f] ELSE row[f]]

Dirty(p) == poll[p].orm # poll[p].loaded

-----------------------------------------------------------------------------
(* Actions of the image service and the worker *)

Tick ==
    /\ now < MaxTime
    /\ now' = now + 1
    /\ UNCHANGED <<pollVars, nonPollVars>>

\* generate.py 27-80 / inpaint.py 37-105: the row is created and the job sent.
Submit(t) ==
    /\ tasks[t].status = "absent"
    /\ tasks' = [tasks EXCEPT ![t] = NewTaskRow(t)]
    /\ celery' = [celery EXCEPT ![t] = [state |-> "PENDING", result |-> NoResult]]
    /\ UNCHANGED <<nonPollVars, now, images, history, poll, lock, nextUuid, lastResp>>

\* celery_app.py 37: task_track_started
WorkerStart(t) ==
    /\ celery[t].state = "PENDING"
    /\ celery' = [celery EXCEPT ![t].state = "STARTED"]
    /\ UNCHANGED <<nonPollVars, now, tasks, images, history, poll, lock, nextUuid, lastResp>>

\* image_generation.py 120-143: the job returns a result dict ...
WorkerReturn(t) ==
    /\ celery[t].state = "STARTED"
    /\ \E r \in {CompletedResult(t, k) : k \in 0..MaxImages} \cup {FailedResult(t)} :
          celery' = [celery EXCEPT ![t] = [state |-> "SUCCESS", result |-> r]]
    /\ UNCHANGED <<nonPollVars, now, tasks, images, history, poll, lock, nextUuid, lastResp>>

\* ... or the queue entry itself fails (time limit, lost worker).
WorkerRaise(t) ==
    /\ celery[t].state = "STARTED"
    /\ celery' = [celery EXCEPT ![t] = [state |-> "FAILURE", result |-> RaisedResult(t)]]
    /\ UNCHANGED <<nonPollVars, now, tasks, images, history, poll, lock, nextUuid, lastResp>>

\* tasks.py 48-57 / inpaint.py 115-124
PollNotFound(p, t) ==
    /\ poll[p].pc = "idle"
    /\ tasks[t].status = "absent"
    /\ lastResp' = [lastResp EXCEPT ![p] = [code |-> 404, status |-> "none"]]
    /\ UNCHANGED <<nonPollVars, now, tasks, images, history, celery, poll, lock, nextUuid>>

PollLoad(p, t) ==
    /\ poll[p].pc = "idle"
    /\ tasks[t].status # "absent"
    /\ poll' = [poll EXCEPT ![p] = [pc |-> "loaded", task |-> t, loaded |-> tasks[t],
                                    orm |-> tasks[t], branch |-> "none"]]
    /\ UNCHANGED <<nonPollVars, now, tasks, images, history, celery, lock, nextUuid, lastResp>>

\* tasks.py 59-173: no await between the SELECT and the return.
GenReconcile(p) ==
    LET t == poll[p].task IN
    /\ poll[p].pc = "loaded"
    /\ t \in GenTaskIds
    /\ poll' = [poll EXCEPT ![p].pc = "commit",
                            ![p].orm = GenReconcileRow(poll[p].orm, celery[t], now),
                            ![p].branch = GenBranch(poll[p].orm, celery[t])]
    /\ UNCHANGED <<nonPollVars, now, tasks, images, history, celery, lock, nextUuid, lastResp>>

\* inpaint.py 136-148, 201-204, 206-209: up to the first awaited flush.
InpReconcile(p) ==
    LET t == poll[p].task
        b == InpBranch(poll[p].orm, celery[t]) IN
    /\ poll[p].pc = "loaded"
    /\ t \in InpTaskIds
    /\ poll' = [poll EXCEPT ![p].pc = IF b = "none" THEN "commit" ELSE "flush",
                            ![p].orm = InpReconcileRow(poll[p].orm, celery[t], now),
                            ![p].branch = b]
    /\ UNCHANGED <<nonPollVars, now, tasks, images, history, celery, lock, nextUuid, lastResp>>

\* inpaint.py 149-200, 205, 210: the UPDATE takes the row lock (it waits while
\* another transaction holds it), then the INSERTs of the loop are flushed.
InpFlush(p) ==
    LET t == poll[p].task IN
    /\ poll[p].pc = "flush"
    /\ lock[t] = "free"
    /\ ~PrimaryKeyConflict(InpImageRows(t, Entries(p), nextUuid))
    /\ lock' = [lock EXCEPT ![t] = p]
    /\ poll' = [poll EXCEPT ![p].pc = "commit"]
    /\ UNCHANGED <<nonPollVars, now, tasks, images, history, celery, nextUuid, lastResp>>

\* The INSERT of an Image whose id is taken raises IntegrityError: the
\* transaction is rolled back and the request answered 500.
InpFlushConflict(p) ==
    LET t == poll[p].task IN
    /\ poll[p].pc = "flush"
    /\ lock[t] = "free"
    /\ PrimaryKeyConflict(InpImageRows(t, Entries(p), nextUuid))
    /\ poll' = [poll EXCEPT ![p] = IdlePoll]
    /\ lastResp' = [lastResp EXCEPT ![p] = [code |-> 500, status |-> "none"]]
    /\ UNCHANGED <<nonPollVars, now, tasks, images, history, celery, lock, nextUuid>>

\* get_db: the session is flushed and committed when the handler has returned.
Commit(p) ==
    LET t == poll[p].task
        es == Entries(p)
        n == Len(es) IN
    /\ poll[p].pc = "commit"
    /\ Dirty(p) => lock[t] \in {"free", p}
    /\ tasks' = [tasks EXCEPT ![t] = ApplyUpdate(tasks[t], poll[p].loaded, poll[p].orm)]
    /\ images' = images \cup (IF t \in GenTaskIds THEN GenImageRows(t, es, nextUuid)
                                                 ELSE InpImageRows(t, es, nextUuid))
    /\ history' = history \cup (IF t \in GenTaskIds THEN {}
                                ELSE EditHistoryRows(t, poll[p].orm, es, nextUuid + n))
    /\ nextUuid' = nextUuid + (IF t \in GenTaskIds THEN n ELSE n + n)
    /\ lock' = [lock EXCEPT ![t] = IF @ = p THEN "free" ELSE @]
    /\ lastResp' = [lastResp EXCEPT ![p] = [code |-> 200, status |-> poll[p].orm.status]]
    /\ poll' = [poll EXCEPT ![p] = IdlePoll]
    /\ UNCHANGED <<nonPollVars, now, celery>>

-----------------------------------------------------------------------------
(* The gateway's rate limiter: api-gateway/app/middleware/rate_limit.py *)

rate_limit == 3         \* settings.RATE_LIMIT_PER_MINUTE, set to a small limit
window == 60            \* seconds
TickStep == 20          \* the clock of the limiter advances by this much
MaxRateTime == 80       \* and stops here

Slots == {"s1", "s2"}               \* requests the gateway handles at once
Clients == {"a", "b"}               \* client identities
ExcludedPaths == {"/health", "/"}
RatePaths == {"/health", "/v1/images/"}
DownstreamCodes == {200}            \* what call_next answers

\* The requests of client c that reach the limiter: c connects itself, or a
\* proxy connects and names c in X-Forwarded-For.
RequestsOf(c) ==
    {[path |-> pa, forwarded |-> None, peer |-> c] : pa \in RatePaths}
    \cup {[path |-> pa, forwarded |-> Some(c), peer |-> "proxy"] : pa \in RatePaths}

Max(x, y) == IF x >= y THEN x ELSE y

\* _get_client_ip
GetClientIp(req) ==
    IF req.forwarded # None THEN req.forwarded[1] ELSE req.peer

\* A variant of CleanOld that keeps a request made exactly one window ago.
CleanOldInclusive(times, t) ==
    SelectSeq(times, LAMBDA req_time : req_time >= t - window)

\* _is_rate_limited, "Clean old requests"
CleanOld(times, t) == SelectSeq(times, LAMBDA req_time : req_time > t - window)

\* A variant of OverLimit that lets one request too many through.
OverLimitOffByOne(times) == Len(times) > rate_limit

\* _is_rate_limited, "Check rate limit"
OverLimit(times) == Len(times) >= rate_limit

\* A variant of IsRateLimited that records the rejected request too.
IsRateLimitedRecording(reqs, client_ip, t) ==
    LET kept == CleanOld(reqs[client_ip], t) IN
    [limited |-> OverLimit(kept),
     requests |-> [reqs EXCEPT ![client_ip] = Append(kept, t)]]

\* _is_rate_limited, run under self.lock: the verdict and the list it leaves.
IsRateLimited(reqs, client_ip, t) ==
    LET kept == CleanOld(reqs[client_ip], t) IN
    IF OverLimit(kept)
    THEN [limited |-> TRUE, requests |-> [reqs EXCEPT ![client_ip] = kept]]
    ELSE [limited |-> FALSE,
          requests |-> [reqs EXCEPT ![client_ip] = Append(kept, t)]]

\* dispatch, "Add rate limit headers"
Remaining(reqs, client_ip) == Max(0, rate_limit - Len(reqs[client_ip]))

\* The X-RateLimit-* headers of a response; reset is a time from now.
NoHeaders == [present |-> FALSE, limit |-> 0, remaining |-> 0, reset |-> 0]
RateHeaders(reqs, client_ip) ==
    [present |-> TRUE, limit |-> rate_limit,
     remaining |-> Remaining(reqs, client_ip), reset |-> window]

NoRateReq == [path |-> "/", forwarded |-> None, peer |-> "a"]
IdleSlot == [pc |-> "idle", req |-> NoRateReq, code |-> 0, k |-> 0]

\* What has been seen of one client (history, not program state):
\*   admits      the times of its admissions that lie in the window ending at
\*               its last check (the newest rate_limit + 1 of them)
\*   lastAt      when its last request was checked
\*   runStart    when its first request after a quiet window was checked
\*   sinceQuiet  how many of its requests were checked since then (counted up
\*               to rate_limit + 1)
\*   verdict     what the last check decided
\*   full        whether rate_limit admissions lay in the window at that check
\*   rejectCode  the status of the last rejection given to it, 0 if none
\*   overlap     whether two of its requests were in flight at once since runStart
\*   resp        the last response it was given; k tells which request of the
\*               run it answers when the run is sequential and younger than a
\*               window, and is 0 otherwise
NoRateResp == [code |-> 0, headers |-> NoHeaders, k |-> 0]
NoClientHistory ==
    [admits |-> <<>>, lastAt |-> None, runStart |-> None, sinceQuiet |-> 0,
     verdict |-> "none", full |-> FALSE, rejectCode |-> 0, overlap |-> FALSE,
     resp |-> NoRateResp]

LastN(seq, n) == IF Len(seq) <= n THEN seq ELSE SubSeq(seq, Len(seq) - n + 1, Len(seq))

InWindow(times, t) == SelectSeq(times, LAMBDA x : t - x < window)

InFlight(c) == {s \in Slots : slots[s].pc \in {"next", "headers"}
                               /\ GetClientIp(slots[s].req) = c}

\* The history of client c after a check at time t that decided `limited`.
Checked(h, c, t, limited) ==
    LET quiet == h.lastAt = None \/ t - h.lastAt[1] >= window
        before == InWindow(h.admits, t) IN
    [h EXCEPT
        !.admits = IF limited THEN before
                   ELSE LastN(Append(before, t), rate_limit + 1),
        !.lastAt = Some(t),
        !.runStart = IF quiet THEN Some(t) ELSE @,
        !.sinceQuiet = IF quiet THEN 1
                       ELSE IF @ <= rate_limit THEN @ + 1 ELSE @,
        !.verdict = IF limited THEN "rejected" ELSE "admitted",
        !.full = Len(before) >= rate_limit,
        !.overlap = (IF quiet THEN FALSE ELSE @) \/ InFlight(c) # {}]

\* Which request of a sequential run younger than a window the one just
\* checked is; 0 when the run is not such a run.
RunIndex(h, t) ==
    IF ~h.overlap /\ t - h.runStart[1] < window /\ h.sinceQuiet <= rate_limit + 1
    THEN h.sinceQuiet ELSE 0

\* The history of a client after a response to it.
Responded(h, code, headers, k) ==
    [h EXCEPT !.resp = [code |-> code, headers |-> headers,
                        k |-> IF h.overlap THEN 0 ELSE k]]

AdvanceRate ==
    /\ now + TickStep <= MaxRateTime
    /\ now' = now + TickStep
    /\ UNCHANGED <<pollVars, extVars, rateVars, gwVars>>

\* dispatch 50-52: excluded paths bypass the limiter; the response of the
\* rest of the application is returned as it is.
RLExcluded(s, req) ==
    /\ slots[s].pc = "idle"
    /\ req.path \in ExcludedPaths
    /\ UNCHANGED <<now, pollVars, extVars, requests, slots, rl, gwVars>>

\* dispatch 54-60 with _is_rate_limited answering True: HTTPException(429).
RLReject(s, req) ==
    LET c == GetClientIp(req)
        v == IsRateLimited(requests, c, now)
        h == Checked(rl[c], c, now, TRUE) IN
    /\ slots[s].pc = "idle"
    /\ req.path \notin ExcludedPaths
    /\ v.limited
    /\ requests' = v.requests
    /\ rl' = [rl EXCEPT ![c] = [Responded(h, 429, NoHeaders, RunIndex(h, now))
                                    EXCEPT !.rejectCode = 429]]
    /\ UNCHANGED <<now, pollVars, extVars, slots, gwVars>>

\* dispatch 54-62 with _is_rate_limited answering False: on to call_next.
RLAdmit(s, req) ==
    LET c == GetClientIp(req)
        v == IsRateLimited(requests, c, now)
        h == Checked(rl[c], c, now, FALSE) IN
    /\ slots[s].pc = "idle"
    /\ req.path \notin ExcludedPaths
    /\ ~v.limited
    /\ requests' = v.requests
    /\ slots' = [slots EXCEPT ![s] = [pc |-> "next", req |-> req, code |-> 0,
                                      k |-> RunIndex(h, now)]]
    /\ rl' = [rl EXCEPT ![c] = h]
    /\ UNCHANGED <<now, pollVars, extVars, gwVars>>

\* dispatch 62: the rest of the application answers.
RLCallNext(s) ==
    /\ slots[s].pc = "next"
    /\ \E code \in DownstreamCodes :
          slots' = [slots EXCEPT ![s].pc = "headers", ![s].code = code]
    /\ UNCHANGED <<now, pollVars, extVars, requests, rl, gwVars>>

\* dispatch 64-72
RLHeaders(s) ==
    LET c == GetClientIp(slots[s].req)
        h == RateHeaders(requests, c) IN
    /\ slots[s].pc = "headers"
    /\ slots' = [slots EXCEPT ![s] = IdleSlot]
    /\ rl' = [rl EXCEPT ![c] = Responded(@, slots[s].code, h, slots[s].k)]
    /\ UNCHANGED <<now, pollVars, extVars, requests, gwVars>>

-----------------------------------------------------------------------------
(* Tokens: auth-service/app/services/auth.py with jose's jwt *)

ACCESS_TOKEN_EXPIRE_MINUTES == 30
REFRESH_TOKEN_EXPIRE_DAYS == 7
JWT_SECRET == "your-super-secret-jwt-key"

GwTickStep == 900       \* the clock of the gateway advances by this much
MaxGwTime == 2700       \* and stops here
MaxLogins == 2          \* token pairs the auth service hands out

\* The accounts of the auth service
Users == {[id |-> "u1", role |-> "user"]}

\* jwt.encode: three segments, the claims and a MAC of the claims under the key.
\* A claim the token does not carry is None.
Sign(claims, key) == [over |-> claims, key |-> key]
JwtEncode(claims, key) == [segments |-> 3, claims |-> claims, sig |-> Sign(claims, key)]

create_access_token(user_id, role, t) ==
    JwtEncode([sub |-> user_id, role |-> Some(role),
               exp |-> t + ACCESS_TOKEN_EXPIRE_MINUTES * 60, type |-> "access"],
              JWT_SECRET)

create_refresh_token(user_id, t) ==
    JwtEncode([sub |-> user_id, role |-> None,
               exp |-> t + REFRESH_TOKEN_EXPIRE_DAYS * 86400, type |-> "refresh"],
              JWT_SECRET)

\* create_tokens
create_tokens(user, t) ==
    {create_access_token(user.id, user.role, t), create_refresh_token(user.id, t)}

\* jwt.decode(token, key, algorithms): the claims, or None for a JWTError
\* (not a token, a signature that does not verify, exp in the past).
JwtDecode(token, key, t) ==
    IF token.segments # 3 THEN None
    ELSE IF token.sig # Sign(token.claims, key) THEN None
    ELSE IF token.claims.exp < t THEN None
    ELSE Some(token.claims)

-----------------------------------------------------------------------------
(* The gateway: api-gateway/app/main.py, middleware/auth.py, routes/proxy.py *)

\* The middleware main.py adds to the application
AppMiddleware == {"CORSMiddleware", "RateLimitMiddleware"}

PUBLIC_PATHS ==
    {"/", "/health", "/docs", "/redoc", "/openapi.json",
     "/v1/auth/login", "/v1/auth/register", "/v1/auth/refresh"}

\* The prefixes under /v1 that main.py and proxy.py route to an upstream
ProxyPrefixes ==
    {"/v1/auth/", "/v1/images/", "/v1/tasks/", "/v1/gallery/",
     "/v1/folders/", "/v1/tags/", "/v1/templates/"}

GwPaths == {"/health", "/v1/auth/login", "/v1/images/generate", "/nowhere"}

\* How the upstream call of the proxy ends
UpstreamOutcomes == {"answered", "ConnectError"}

\* str.startswith
StartsWith(str, prefix) ==
    Len(prefix) <= Len(str) /\ SubSeq(str, 1, Len(prefix)) = prefix

\* What a client that is not the owner of a token can make of it or without
\* it: the text "tampered", the token with a claim changed under the old
\* signature, a token signed with another key.
Garbage ==
    [segments |-> 1,
     claims |-> [sub |-> "", role |-> None, exp |-> 0, type |-> ""],
     sig |-> Sign([sub |-> "", role |-> None, exp |-> 0, type |-> ""], "")]
Tampered(token) == [token EXCEPT !.claims.sub = "admin1", !.claims.role = Some("admin")]
Forged(t) ==
    JwtEncode([sub |-> "admin1", role |-> Some("admin"),
               exp |-> t + ACCESS_TOKEN_EXPIRE_MINUTES * 60, type |-> "access"],
              "a-guess")

\* The Authorization headers a request may carry: none, another scheme, a
\* bearer token.
AuthorizationHeaders ==
    {None, Some([scheme |-> "Basic", token |-> Garbage])}
    \cup {Some([scheme |-> "Bearer", token |-> tok]) :
            tok \in issued \cup {Tampered(i) : i \in issued} \cup {Garbage, Forged(now)}}

\* The X-User-ID and X-User-Role a client may send itself
ClientIdentityHeaders == {None, Some([id |-> "admin1", role |-> "admin"])}

GwRequests ==
    [path : GwPaths, authorization : AuthorizationHeaders,
     identity : ClientIdentityHeaders, forwarded : {None}, peer : {"a"}]

NoGwReq ==
    [path |-> "/", authorization |-> None, identity |-> None,
     forwarded |-> None, peer |-> "a"]

\* AuthMiddleware.dispatch: the status it raises (0 when it calls call_next)
\* and what it leaves in request.state (None when it sets nothing).
AuthDispatch(req, t) ==
    IF \E p \in PUBLIC_PATHS : StartsWith(req.path, p)
    THEN [code |-> 0, state |-> None]
    ELSE IF req.authorization = None \/ req.authorization[1].scheme # "Bearer"
    THEN [code |-> 401, state |-> None]
    ELSE LET payload == JwtDecode(req.authorization[1].token, JWT_SECRET, t) IN
         IF payload = None
         THEN [code |-> 401, state |-> None]
         ELSE [code |-> 0,
               state |-> Some([user_id |-> payload[1].sub,
                               user_role |-> IF payload[1].role = None THEN "user"
                                             ELSE payload[1].role[1]])]

\* proxy_request 35-42: the headers sent upstream. dict(request.headers) has
\* the client's headers under lower-case names; the proxy adds its own under
\* the names X-User-ID and X-User-Role, next to them.
ForwardedHeaders(req, state) ==
    [host |-> None,
     authorization |-> req.authorization,
     x_user_id |-> IF req.identity = None THEN None ELSE Some(req.identity[1].id),
     x_user_role |-> IF req.identity = None THEN None ELSE Some(req.identity[1].role),
     X_User_ID |-> IF state = None THEN None ELSE Some(state[1].user_id),
     X_User_Role |-> IF state = None THEN None ELSE Some(state[1].user_role)]

\* The routes of main.py 63-82 and proxy.py 81-116
Route(path) ==
    IF path \in {"/health", "/"} THEN "local"
    ELSE IF \E p \in ProxyPrefixes : StartsWith(path, p) THEN "proxy"
    ELSE "none"

\* What the gateway did with a request: the status it answered, what the
\* upstream was sent (None when nothing was), what request.state held.
NoGwResp ==
    [handled |-> FALSE, req |-> NoGwReq, at |-> 0, code |-> 0,
     upstream |-> None, state |-> None]
GwResp(req, t, code, upstream, state) ==
    [handled |-> TRUE, req |-> req, at |-> t, code |-> code,
     upstream |-> upstream, state |-> state]

\* proxy_request
ProxyRequest(req, t, state, outcome) ==
    IF outcome = "ConnectError"
    THEN GwResp(req, t, 503, None, state)
    ELSE GwResp(req, t, 200,
                Some([path |-> req.path, headers |-> ForwardedHeaders(req, state)]),
                state)

\* One request through the application as main.py assembles it: the rate
\* limiter, the auth middleware if it is one of the application's, the route.
GwPipeline(req, t, limited, outcome) ==
    LET auth == IF "AuthMiddleware" \in AppMiddleware THEN AuthDispatch(req, t)
                ELSE [code |-> 0, state |-> None] IN
    IF limited THEN GwResp(req, t, 429, None, None)
    ELSE IF auth.code # 0 THEN GwResp(req, t, auth.code, None, None)
    ELSE IF Route(req.path) = "local" THEN GwResp(req, t, 200, None, auth.state)
    ELSE IF Route(req.path) = "none" THEN GwResp(req, t, 404, None, auth.state)
    ELSE ProxyRequest(req, t, auth.state, outcome)

GwAdvance ==
    /\ now + GwTickStep <= MaxGwTime
    /\ now' = now + GwTickStep
    /\ UNCHANGED <<pollVars, extVars, rateVars, gwVars>>

\* POST /auth/login or /auth/register of the auth service: a token pair.
Login(user) ==
    /\ Cardinality(issued) < 2 * MaxLogins
    /\ issued' = issued \cup create_tokens(user, now)
    /\ UNCHANGED <<now, pollVars, extVars, rateVars, lastGw, authOut>>

\* A request to the gateway, from its arrival to its response.
GwHandle(req) ==
    LET c == GetClientIp(req)
        v == IF req.path \in ExcludedPaths
             THEN [limited |-> FALSE, requests |-> requests]
             ELSE IsRateLimited(requests, c, now) IN
    /\ requests' = v.requests
    /\ \E outcome \in UpstreamOutcomes :
          lastGw' = GwPipeline(req, now, v.limited, outcome)
    /\ UNCHANGED <<now, pollVars, extVars, slots, rl, issued, authOut>>

\* AuthMiddleware.dispatch on its own, in front of a handler that answers 200.
AuthStep(req) ==
    LET auth == AuthDispatch(req, now) IN
    /\ authOut' = GwResp(req, now, IF auth.code # 0 THEN auth.code ELSE 200,
                         None, auth.state)
    /\ UNCHANGED <<now, pollVars, extVars, rateVars, issued, lastGw>>

-----------------------------------------------------------------------------
(* Tasks without a row: api/background.py, api/sam.py, api/style.py *)

\* One submission per endpoint family
SlKinds == {"background", "sam", "style"}

Uuid(n) == <<"uuid", n>>
SlIds == {Uuid(n) : n \in 1..(2 * Cardinality(SlKinds))}

\* A variant of send_task that files the job under the id it is given in kwargs.
send_task_keyed(kwargs_task_id, fresh) == kwargs_task_id

\* celery_app.send_task(name, kwargs=..., queue=...): no task_id argument is
\* passed, so the queue files the job under an id of its own making.
send_task(kwargs_task_id, fresh) == fresh

\* AsyncResult(id): an id the backend does not know reads as PENDING.
UnknownEntry == [state |-> "PENDING", isdict |-> FALSE, status |-> "none"]
AsyncResult(queue, id) == IF id \in DOMAIN queue THEN queue[id] ELSE UnknownEntry

NoSlJob == [submitted |-> FALSE, task_id |-> Uuid(0), queue_id |-> Uuid(0)]
NoSlResp == [code |-> 0, status |-> "none"]

\* background.py 187-210, sam.py 147-170, style.py 129-151
SlStatus(entry) ==
    IF entry.state \in {"SUCCESS", "FAILURE"} /\ entry.isdict THEN entry.status
    ELSE IF entry.state = "STARTED" THEN "processing"
    ELSE "pending"

\* background.py 63-79, sam.py 64-81, style.py 107-126: 202 with task_id.
SlSubmit(k) ==
    LET task_id == Uuid(slNext + 1)
        queue_id == send_task(task_id, Uuid(slNext + 2)) IN
    /\ ~slJobs[k].submitted
    /\ slJobs' = [slJobs EXCEPT ![k] = [submitted |-> TRUE, task_id |-> task_id,
                                        queue_id |-> queue_id]]
    /\ slQueue' = (queue_id :> [state |-> "PENDING", isdict |-> FALSE, status |-> "none"])
                  @@ slQueue
    /\ slNext' = slNext + 2
    /\ UNCHANGED <<now, nonSlVars, slResp>>

\* celery_app.py 37: task_track_started
SlWorkerStart(q) ==
    /\ q \in DOMAIN slQueue
    /\ slQueue[q].state = "PENDING"
    /\ slQueue' = [slQueue EXCEPT ![q].state = "STARTED"]
    /\ UNCHANGED <<now, nonSlVars, slJobs, slResp, slNext>>

\* The job returns its result dict, completed or failed.
SlWorkerReturn(q) ==
    /\ q \in DOMAIN slQueue
    /\ slQueue[q].state = "STARTED"
    /\ \E st \in {"completed", "failed"} :
          slQueue' = [slQueue EXCEPT ![q] = [state |-> "SUCCESS", isdict |-> TRUE,
                                             status |-> st]]
    /\ UNCHANGED <<now, nonSlVars, slJobs, slResp, slNext>>

\* GET .../tasks/{task_id} with the task_id of the 202 response
SlPoll(k) ==
    /\ slJobs[k].submitted
    /\ slResp' = [slResp EXCEPT ![k] =
                    [code |-> 200,
                     status |-> SlStatus(AsyncResult(slQueue, slJobs[k].task_id))]]
    /\ UNCHANGED <<now, nonSlVars, slJobs, slQueue, slNext>>

StatelessInit ==
    /\ slJobs = [k \in SlKinds |-> NoSlJob]
    /\ slQueue = <<>>
    /\ slResp = [k \in SlKinds |-> NoSlResp]
    /\ slNext = 0

StatelessNext ==
    \/ \E k \in SlKinds : SlSubmit(k)
    \/ \E q \in SlIds : SlWorkerStart(q)
    \/ \E q \in SlIds : SlWorkerReturn(q)
    \/ \E k \in SlKinds : SlPoll(k)

-----------------------------------------------------------------------------
(* The worker: ml-worker/app/tasks/image_generation.py, tasks/inpainting.py, *)
(* ml/translation_pipeline.py, celery_app.py                               *)

max_retries == 2
ENABLE_TRANSLATION == TRUE

WkTickStep == 5         \* the clock of the worker advances by this much
MaxWkTime == 20         \* and stops here
MaxRedeliveries == 1    \* times the broker delivers a message again

JobNames == {"generate_image", "inpaint_image"}

\* A text is the sequence of the scripts of its characters.
CjkScripts == {"HANGUL", "CJK", "HIRAGANA", "KATAKANA"}
Prompts == {<<"LATIN", "LATIN">>, <<"HANGUL", "LATIN">>}

\* contains_cjk
contains_cjk(text) == \E i \in 1..Len(text) : text[i] \in CjkScripts

\* translate_to_english: the text in English, or the text itself when the
\* translator raises.
translate_to_english(text, translator) ==
    IF translator = "raises" THEN text
    ELSE [i \in 1..Len(text) |-> "LATIN"]

\* translate_prompt: (translated_text, was_translated)
translate_prompt(text, translator) ==
    IF ~ENABLE_TRANSLATION THEN <<text, FALSE>>
    ELSE IF ~contains_cjk(text) THEN <<text, FALSE>>
    ELSE LET translated == translate_to_english(text, translator) IN
         <<translated, translated # text>>

\* A variant of Countdown that waits the same time before every retry.
CountdownFlat(retries) == 5

\* self.retry(exc=e, countdown=5 * (self.request.retries + 1))
Countdown(retries) == 5 * (retries + 1)

\* object_name and url of an image of a task
ObjectName(user_id, task_id, image_id) == <<"images", user_id, task_id, image_id>>
Url(object_name) == <<"url", object_name>>

\* The loop that uploads n images, with uuid4 values taken from base + 1 on.
Uploads(job, n, base) ==
    [i \in 1..n |->
        [id |-> Uuid(base + i),
         object_name |-> ObjectName(job.user_id, job.task_id, Uuid(base + i)),
         url |-> Url(ObjectName(job.user_id, job.task_id, Uuid(base + i)))]]

\* image_generation.py 70-127: the prompt given to the model and the result.
GenerateBody(job, base, translator) ==
    [model_prompt |-> job.prompt,
     result |-> [task_id |-> job.task_id, status |-> "completed",
                 images |-> Uploads(job, job.num_images, base),
                 error |-> None, original_prompt |-> None]]

\* inpainting.py 104-210
InpaintBody(job, base, translator) ==
    LET tp == translate_prompt(job.prompt, translator) IN
    [model_prompt |-> IF tp[2] THEN tp[1] ELSE job.prompt,
     result |-> [task_id |-> job.task_id, status |-> "completed",
                 images |-> Uploads(job, job.num_images, base),
                 error |-> None, original_prompt |-> Some(job.prompt)]]

Body(job, base, translator) ==
    IF job.name = "generate_image" THEN GenerateBody(job, base, translator)
    ELSE InpaintBody(job, base, translator)

\* image_generation.py 138-143, inpainting.py 220-225
FailedPayload(job) ==
    [task_id |-> job.task_id, status |-> "failed", images |-> <<>>,
     error |-> Some("error"), original_prompt |-> None]

NoPayload ==
    [task_id |-> "", status |-> "none", images |-> <<>>, error |-> None,
     original_prompt |-> None]

NoJob == [name |-> "generate_image", task_id |-> "", prompt |-> <<>>,
          user_id |-> "", num_images |-> 0]

\* phase: none, queued, running, retry (waiting for the countdown), unacked
\* (returned, message not acknowledged yet), acked.
\* outcome: how the last execution ended; raisedAt: the retries it ran with;
\* raised: the executions that raised.
NoWork ==
    [phase |-> "none", job |-> NoJob, retries |-> 0, due |-> 0,
     countdowns |-> <<>>, executions |-> 0, raised |-> 0, redeliveries |-> 0,
     outcome |-> "none", raisedAt |-> 0, uuid |-> 0,
     entry |-> [state |-> "NONE", result |-> NoPayload]]

WkTick ==
    /\ now + WkTickStep <= MaxWkTime
    /\ now' = now + WkTickStep
    /\ UNCHANGED <<coreVars, extVars>>

\* The image service sends the job of task t1.
WkEnqueue(name, prompt, n) ==
    /\ wk.phase = "none"
    /\ wk' = [wk EXCEPT !.phase = "queued",
                        !.job = [name |-> name, task_id |-> "t1", prompt |-> prompt,
                                 user_id |-> "u1", num_images |-> n],
                        !.entry = [state |-> "PENDING", result |-> NoPayload]]
    /\ UNCHANGED <<now, nonWkVars, wkStore, wkLog>>

\* A worker takes the message (celery_app.py 37: the entry becomes STARTED).
WkStart ==
    /\ wk.phase = "queued"
    /\ wk' = [wk EXCEPT !.phase = "running", !.executions = @ + 1,
                        !.entry.state = "STARTED"]
    /\ UNCHANGED <<now, nonWkVars, wkStore, wkLog>>

\* The body runs to its end and returns the result.
WkReturn(translator) ==
    LET b == Body(wk.job, wk.uuid, translator) IN
    /\ wk.phase = "running"
    /\ wk' = [wk EXCEPT !.phase = "unacked", !.outcome = "returned",
                        !.uuid = @ + wk.job.num_images,
                        !.entry = [state |-> "SUCCESS", result |-> b.result]]
    /\ wkStore' = wkStore \cup {b.result.images[i].object_name :
                                    i \in 1..Len(b.result.images)}
    /\ wkLog' = Append(wkLog, [translator |-> translator,
                                model_prompt |-> b.model_prompt,
                                result |-> b.result])
    /\ UNCHANGED <<now, nonWkVars>>

\* The body raises after it has uploaded j images: retry, or the failed
\* result once the retries are used up.
WkRaise(j) ==
    LET up == Uploads(wk.job, j, wk.uuid) IN
    /\ wk.phase = "running"
    /\ j <= wk.job.num_images
    /\ wkStore' = wkStore \cup {up[i].object_name : i \in 1..j}
    /\ IF wk.retries < max_retries
       THEN wk' = [wk EXCEPT !.phase = "retry", !.outcome = "raised", !.raised = @ + 1,
                             !.raisedAt = wk.retries,
                             !.retries = @ + 1,
                             !.due = now + Countdown(wk.retries),
                             !.countdowns = Append(@, Countdown(wk.retries)),
                             !.uuid = @ + j,
                             !.entry.state = "RETRY"]
       ELSE wk' = [wk EXCEPT !.phase = "unacked", !.outcome = "raised", !.raised = @ + 1,
                             !.raisedAt = wk.retries,
                             !.uuid = @ + j,
                             !.entry = [state |-> "SUCCESS",
                                        result |-> FailedPayload(wk.job)]]
    /\ UNCHANGED <<now, nonWkVars, wkLog>>

\* The countdown of a retry is over.
WkRetryDue ==
    /\ wk.phase = "retry"
    /\ now >= wk.due
    /\ wk' = [wk EXCEPT !.phase = "queued"]
    /\ UNCHANGED <<now, nonWkVars, wkStore, wkLog>>

\* celery_app.py 41: the message is acknowledged after the task has returned.
WkAck ==
    /\ wk.phase = "unacked"
    /\ wk' = [wk EXCEPT !.phase = "acked"]
    /\ UNCHANGED <<now, nonWkVars, wkStore, wkLog>>

\* celery_app.py 41-42: the worker is lost before the acknowledgement and the
\* broker delivers the message again.
WkLost ==
    /\ wk.phase \in {"running", "unacked"}
    /\ wk.redeliveries < MaxRedeliveries
    /\ wk' = [wk EXCEPT !.phase = "queued", !.redeliveries = @ + 1]
    /\ UNCHANGED <<now, nonWkVars, wkStore, wkLog>>

WorkerInit ==
    /\ wk = NoWork
    /\ wkStore = {}
    /\ wkLog = <<>>

WorkerJobNext ==
    \/ WkTick
    \/ \E name \in JobNames, prompt \in Prompts, n \in 1..MaxImages :
          WkEnqueue(name, prompt, n)
    \/ WkStart
    \/ \E translator \in {"answers", "raises"} : WkReturn(translator)
    \/ \E j \in 0..MaxImages : WkRaise(j)
    \/ WkRetryDue
    \/ WkAck
    \/ WkLost

-----------------------------------------------------------------------------
(* Editing: image-service/app/api/inpaint.py, api/edit_history.py *)

MaxInpaints == 1        \* POST /inpaint requests
MaxReplays == 2         \* POST /edit-history/{id}/replay requests

DefaultStrength == 85           \* 0.85, in hundredths

EdUsers == {"u1", "u2"}
HeaderUsers == {None} \cup {Some(u) : u \in EdUsers}
DevUser == "u1"         \* the user the handlers fall back to without a header
\* The ids of the Image rows of u1 and of u2, and an id with no row.
ImageOfU1 == Uuid(1)
ImageOfU2 == Uuid(2)
ImageIds == {ImageOfU1, ImageOfU2, Uuid(3)}

\* InpaintRequest (schemas/inpaint.py): strength in 0.0..1.0, guidance_scale
\* in 1.0..20.0, num_inference_steps in 10..100, seed >= 0 or absent.
InpaintRequests ==
    [prompt : {"cat"}, negative_prompt : {None, Some("blur")},
     strength : {0, 50}, guidance_scale : {75, 120},
     num_inference_steps : {30}, seed : {None, Some(0)}]
MaskBytes == {<<137, 80>>, <<137, 81>>}
WorkerSeeds == {42}

\* x or d, for a nullable number
OrNumber(x, d) == IF x = None \/ x = Some(0) THEN d ELSE x[1]
\* x or "", for a nullable string
OrEmpty(x) == IF x = None THEN "" ELSE x[1]

\* base64.b64encode(bytes).decode('utf-8'), and the data URL made of it
B64Encode(bytes) == <<"base64", bytes>>
DataUrl(bytes) == <<"data:image/png;base64,", B64Encode(bytes)>>

MaskObjectName(user_id, task_id, mask_id) == <<"masks", user_id, task_id, mask_id>>

HeaderUser(x_user_id) == IF x_user_id = None THEN DevUser ELSE x_user_id[1]

\* POST /inpaint (inpaint.py 37-105). source and history are not columns:
\* they record which handler made the row, and from which EditHistory.
EdInpaint(x_user_id, req, original_image_id, mask) ==
    LET user_id == HeaderUser(x_user_id)
        task_id == Uuid(edNext + 1) IN
    /\ Cardinality({t \in edTasks : t.source = "inpaint"}) < MaxInpaints
    /\ IF ~\E im \in edImages : im.id = original_image_id
       THEN /\ edResp' = 404
            /\ UNCHANGED <<edTasks, edJobs, edNext>>
       ELSE /\ edTasks' = edTasks \cup
                {[id |-> task_id, user_id |-> user_id,
                  original_image_id |-> original_image_id,
                  prompt |-> req.prompt, negative_prompt |-> req.negative_prompt,
                  strength |-> req.strength, guidance_scale |-> req.guidance_scale,
                  num_inference_steps |-> req.num_inference_steps,
                  seed |-> req.seed, status |-> "pending",
                  mask_object_name |-> None,
                  source |-> "inpaint", history |-> None]}
            /\ edJobs' = edJobs \cup
                {[task_id |-> task_id, original_image |-> original_image_id,
                  mask_data |-> DataUrl(mask), prompt |-> req.prompt,
                  negative_prompt |-> OrEmpty(req.negative_prompt),
                  strength |-> req.strength, guidance_scale |-> req.guidance_scale,
                  num_inference_steps |-> req.num_inference_steps,
                  seed |-> req.seed, user_id |-> user_id]}
            /\ edNext' = edNext + 1
            /\ edResp' = 202
    /\ UNCHANGED <<now, nonEdVars, edImages, edHist, edStore>>

\* The worker runs the job of a pending task and returns one image and the
\* mask it stored (inpainting.py 150-207); a poll then promotes the row and
\* writes the Image and EditHistory rows (inpaint.py 141-198).
EdComplete(t, mask, random_seed) ==
    LET image_id == Uuid(edNext + 1)
        mask_name == MaskObjectName(t.user_id, t.id, Uuid(edNext + 2))
        history_id == Uuid(edNext + 3)
        seed == IF t.seed = None THEN Some(random_seed) ELSE t.seed IN
    /\ t \in edTasks
    /\ t.status = "pending"
    /\ edStore' = [n \in DOMAIN edStore \cup {mask_name} |->
                      IF n = mask_name THEN mask ELSE edStore[n]]
    /\ edTasks' = (edTasks \ {t}) \cup
          {[t EXCEPT !.status = "completed", !.mask_object_name = Some(mask_name)]}
    /\ edImages' = edImages \cup {[id |-> image_id, user_id |-> t.user_id]}
    /\ edHist' = edHist \cup
          {[id |-> history_id, user_id |-> t.user_id,
            original_image_id |-> t.original_image_id,
            edited_image_id |-> image_id, inpaint_task_id |-> t.id,
            prompt |-> Some(t.prompt), negative_prompt |-> t.negative_prompt,
            strength |-> Some(t.strength),
            mask_object_name |-> Some(mask_name),
            edit_metadata |-> [guidance_scale |-> t.guidance_scale,
                               num_inference_steps |-> t.num_inference_steps,
                               seed |-> seed]]}
    /\ edNext' = edNext + 3
    /\ edResp' = 200
    /\ UNCHANGED <<now, nonEdVars, edJobs>>

\* POST /edit-history/{history_id}/replay (edit_history.py 172-284)
EdReplay(x_user_id, history_id, target_image_id) ==
    LET user_id == HeaderUser(x_user_id)
        found == {h \in edHist : h.id = history_id /\ h.user_id = user_id}
        task_id == Uuid(edNext + 1) IN
    /\ Cardinality({t \in edTasks : t.source = "replay"}) < MaxReplays
    /\ IF found = {}
       THEN /\ edResp' = 404
            /\ UNCHANGED <<edTasks, edJobs, edNext>>
       ELSE LET hist == CHOOSE h \in found : TRUE IN
            IF hist.mask_object_name = None
            THEN /\ edResp' = 400
                 /\ UNCHANGED <<edTasks, edJobs, edNext>>
            ELSE IF ~\E im \in edImages : im.id = target_image_id
            THEN /\ edResp' = 404
                 /\ UNCHANGED <<edTasks, edJobs, edNext>>
            ELSE IF hist.mask_object_name[1] \notin DOMAIN edStore
            THEN /\ edResp' = 500
                 /\ UNCHANGED <<edTasks, edJobs, edNext>>
            ELSE LET mask_data == DataUrl(edStore[hist.mask_object_name[1]])
                     guidance_scale == hist.edit_metadata.guidance_scale
                     num_inference_steps == hist.edit_metadata.num_inference_steps
                     seed == hist.edit_metadata.seed IN
                 /\ edTasks' = edTasks \cup
                      {[id |-> task_id, user_id |-> user_id,
                        original_image_id |-> target_image_id,
                        prompt |-> hist.prompt[1],
                        negative_prompt |-> hist.negative_prompt,
                        strength |-> OrNumber(hist.strength, DefaultStrength),
                        guidance_scale |-> guidance_scale,
                        num_inference_steps |-> num_inference_steps,
                        seed |-> seed, status |-> "pending",
                        mask_object_name |-> None,
                        source |-> "replay", history |-> Some(hist.id)]}
                 /\ edJobs' = edJobs \cup
                      {[task_id |-> task_id, original_image |-> target_image_id,
                        mask_data |-> mask_data,
                        prompt |-> OrEmpty(hist.prompt),
                        negative_prompt |-> OrEmpty(hist.negative_prompt),
                        strength |-> OrNumber(hist.strength, DefaultStrength),
                        guidance_scale |-> guidance_scale,
                        num_inference_steps |-> num_inference_steps,
                        seed |-> seed, user_id |-> user_id]}
                 /\ edNext' = edNext + 1
                 /\ edResp' = 200
    /\ UNCHANGED <<now, nonEdVars, edImages, edHist, edStore>>

\* DELETE /edit-history/{history_id} (edit_history.py 145-169): the row is
\* deleted; the handler does nothing else.
EdDeleteHistory(x_user_id, history_id) ==
    LET user_id == HeaderUser(x_user_id)
        found == {h \in edHist : h.id = history_id /\ h.user_id = user_id} IN
    /\ IF found = {}
       THEN /\ edResp' = 404
            /\ UNCHANGED edHist
       ELSE /\ edHist' = edHist \ found
            /\ edResp' = 204
    /\ UNCHANGED <<now, nonEdVars, edImages, edTasks, edJobs, edStore, edNext>>

EditInit ==
    /\ edImages = {[id |-> ImageOfU1, user_id |-> "u1"], [id |-> ImageOfU2, user_id |-> "u2"]}
    /\ edTasks = {}
    /\ edJobs = {}
    /\ edHist = {}
    /\ edStore = <<>>
    /\ edNext = Cardinality(ImageIds)
    /\ edResp = 0

EditNext ==
    \/ \E x \in HeaderUsers, req \in InpaintRequests, im \in ImageIds, mask \in MaskBytes :
          EdInpaint(x, req, im, mask)
    \/ \E t \in edTasks, mask \in MaskBytes, r \in WorkerSeeds : EdComplete(t, mask, r)
    \/ \E x \in HeaderUsers, h \in {Uuid(n) : n \in 1..edNext}, im \in ImageIds \cup {i.id : i \in edImages} :
          EdReplay(x, h, im)

\* Inpainting and the deletion of history rows: the requests that differ in
\* what the stored mask is kept for
MaskRequests ==
    {req \in InpaintRequests : req.strength = 50 /\ req.guidance_scale = 75}

EditDeleteNext ==
    \/ \E x \in HeaderUsers, req \in MaskRequests, im \in ImageIds, mask \in MaskBytes :
          EdInpaint(x, req, im, mask)
    \/ \E t \in edTasks, mask \in MaskBytes, r \in WorkerSeeds : EdComplete(t, mask, r)
    \/ \E x \in HeaderUsers, h \in {Uuid(n) : n \in 1..edNext} : EdDeleteHistory(x, h)

-----------------------------------------------------------------------------
(* Submission, step by step: image-service/app/api/generate.py 27-80, *)
(* api/inpaint.py 37-105                                              *)

\* db.add(task); await db.flush(): the INSERT is sent inside the request's
\* transaction, which stays open.
SbFlush(t) ==
    /\ sbPc[t] = "idle"
    /\ sbPc' = [sbPc EXCEPT ![t] = "flushed"]
    /\ sbRow' = [sbRow EXCEPT ![t] = "flushed"]
    /\ UNCHANGED <<now, nonSbVars, sbQueue, sbStore>>

\* celery_app.send_task(...); task.celery_task_id = celery_task.id; return
SbSend(t) ==
    /\ sbPc[t] = "flushed"
    /\ sbPc' = [sbPc EXCEPT ![t] = "returned"]
    /\ sbQueue' = [sbQueue EXCEPT ![t] = "queued"]
    /\ UNCHANGED <<now, nonSbVars, sbRow, sbStore>>

\* send_task raises (no broker): the handler raises and the transaction is
\* rolled back.
SbSendRaises(t) ==
    /\ sbPc[t] = "flushed"
    /\ sbPc' = [sbPc EXCEPT ![t] = "failed"]
    /\ sbRow' = [sbRow EXCEPT ![t] = "absent"]
    /\ UNCHANGED <<now, nonSbVars, sbQueue, sbStore>>

\* get_db: the transaction is committed when the handler has returned.
SbCommit(t) ==
    /\ sbPc[t] = "returned"
    /\ sbPc' = [sbPc EXCEPT ![t] = "done"]
    /\ sbRow' = [sbRow EXCEPT ![t] = "pending"]
    /\ UNCHANGED <<now, nonSbVars, sbQueue, sbStore>>

\* get_db: the commit raises and the transaction is rolled back.
SbCommitRaises(t) ==
    /\ sbPc[t] = "returned"
    /\ sbPc' = [sbPc EXCEPT ![t] = "failed"]
    /\ sbRow' = [sbRow EXCEPT ![t] = "absent"]
    /\ UNCHANGED <<now, nonSbVars, sbQueue, sbStore>>

\* A worker takes the job; it does not read the task row.
SbWorkerStart(t) ==
    /\ sbQueue[t] = "queued"
    /\ sbQueue' = [sbQueue EXCEPT ![t] = "running"]
    /\ UNCHANGED <<now, nonSbVars, sbPc, sbRow, sbStore>>

\* The worker uploads the images and returns the result.
SbWorkerReturn(t) ==
    /\ sbQueue[t] = "running"
    /\ sbQueue' = [sbQueue EXCEPT ![t] = "done"]
    /\ sbStore' = [sbStore EXCEPT ![t] = TRUE]
    /\ UNCHANGED <<now, nonSbVars, sbPc, sbRow>>

\* A poll finds the committed row and the result, and promotes the row.
SbPromote(t) ==
    /\ sbRow[t] = "pending"
    /\ sbQueue[t] = "done"
    /\ sbRow' = [sbRow EXCEPT ![t] = "completed"]
    /\ UNCHANGED <<now, nonSbVars, sbPc, sbQueue, sbStore>>

SubmitInit ==
    /\ sbPc = [t \in TaskIds |-> "idle"]
    /\ sbRow = [t \in TaskIds |-> "absent"]
    /\ sbQueue = [t \in TaskIds |-> "none"]
    /\ sbStore = [t \in TaskIds |-> FALSE]

SubmitNext ==
    \E t \in TaskIds :
        \/ SbFlush(t)
        \/ SbSend(t)
        \/ SbSendRaises(t)
        \/ SbCommit(t)
        \/ SbCommitRaises(t)
        \/ SbWorkerStart(t)
        \/ SbWorkerReturn(t)
        \/ SbPromote(t)

-----------------------------------------------------------------------------
(* The auth service: auth-service/app/api/auth.py, services/auth.py, *)
(* models/user.py                                                     *)

AuTickStep == 302400    \* the clock of the auth service advances by 3.5 days
MaxAuTime == 907200     \* and stops here
MaxPairs == 2           \* token pairs handed out

RegSlots == {"r1", "r2"}            \* concurrent POST /auth/register requests
Emails == {"a@x.io", "b@x.io"}
Passwords == {"password-1", "password-2"}
NewUserIds == <<"n1", "n2">>        \* the uuid4 defaults of new User rows

\* pwd_context.hash / pwd_context.verify
hash_password(password) == <<"bcrypt", password>>
verify_password(plain_password, hashed_password) ==
    hashed_password = hash_password(plain_password)

\* The row create_user adds (models/user.py 20-25: role and is_active defaults)
NewUser(id, email, password) ==
    [id |-> id, email |-> email, password_hash |-> hash_password(password),
     role |-> "user", is_active |-> TRUE]

\* The users table before the first request: an active and an inactive user.
InitialUsers ==
    {NewUser("u1", "a@x.io", "password-1"),
     [NewUser("u2", "c@x.io", "password-1") EXCEPT !.is_active = FALSE]}

get_user_by_email(users, email) == {u \in users : u.email = email}
get_user_by_id(users, id) == {u \in users : u.id = id}

\* authenticate_user: the user, or nothing
authenticate_user(users, email, password) ==
    {u \in get_user_by_email(users, email) :
        verify_password(password, u.password_hash) /\ u.is_active}

\* decode_token
decode_token(token, t) == JwtDecode(token, JWT_SECRET, t)

\* A variant of RefreshKind that takes a token of any kind.
RefreshKindAny(payload) == TRUE

\* auth.py 69: payload.get("type") == "refresh"
RefreshKind(payload) == payload.type = "refresh"

\* refresh_token (auth.py 62-83): the status and the tokens of the answer
Refresh(users, token, t) ==
    LET payload == decode_token(token, t) IN
    IF payload = None \/ ~RefreshKind(payload[1])
    THEN [code |-> 401, tokens |-> {}]
    ELSE LET found == get_user_by_id(users, payload[1].sub) IN
         IF found = {} \/ \E u \in found : ~u.is_active
         THEN [code |-> 401, tokens |-> {}]
         ELSE [code |-> 200, tokens |-> create_tokens(CHOOSE u \in found : TRUE, t)]

\* The tokens a client may present: those handed out, altered ones, and a
\* refresh token signed with another key.
ForgedRefresh(t) ==
    JwtEncode([sub |-> "u1", role |-> None,
               exp |-> t + REFRESH_TOKEN_EXPIRE_DAYS * 86400, type |-> "refresh"],
              "a-guess")
PresentedTokens ==
    auIssued \cup {Tampered(i) : i \in auIssued} \cup {Garbage, ForgedRefresh(now)}

NoAuResp == [handler |-> "none", code |-> 0, presented |-> Garbage, tokens |-> {}]
IdleReg == [pc |-> "idle", email |-> "", password |-> "", code |-> 0, user |-> ""]

AuAdvance ==
    /\ now + AuTickStep <= MaxAuTime
    /\ now' = now + AuTickStep
    /\ UNCHANGED <<coreVars, extVars>>

\* POST /auth/login (auth.py 46-59)
AuLogin(email, password) ==
    LET found == authenticate_user(auUsers, email, password) IN
    /\ Cardinality(auIssued) < 2 * MaxPairs
    /\ IF found = {}
       THEN /\ auResp' = [handler |-> "login", code |-> 401, presented |-> Garbage,
                          tokens |-> {}]
            /\ UNCHANGED auIssued
       ELSE LET tokens == create_tokens(CHOOSE u \in found : TRUE, now) IN
            /\ auResp' = [handler |-> "login", code |-> 200, presented |-> Garbage,
                          tokens |-> tokens]
            /\ auIssued' = auIssued \cup tokens
    /\ UNCHANGED <<now, nonAuVars, auUsers, auReg, auNext>>

\* POST /auth/refresh (auth.py 62-83)
AuRefresh(token) ==
    LET r == Refresh(auUsers, token, now) IN
    /\ Cardinality(auIssued) < 2 * MaxPairs
    /\ auResp' = [handler |-> "refresh", code |-> r.code, presented |-> token,
                  tokens |-> r.tokens]
    /\ auIssued' = auIssued \cup r.tokens
    /\ UNCHANGED <<now, nonAuVars, auUsers, auReg, auNext>>

\* DELETE /users/{id} by an admin (users.py 72-95)
AuDelete(u) ==
    /\ u \in auUsers
    /\ auUsers' = auUsers \ {u}
    /\ UNCHANGED <<now, nonAuVars, auReg, auIssued, auResp, auNext>>

\* An operator clears is_active in the users table (models/user.py 25); no
\* endpoint of the service writes the column.
AuDeactivate(u) ==
    /\ u \in auUsers
    /\ u.is_active
    /\ auUsers' = (auUsers \ {u}) \cup {[u EXCEPT !.is_active = FALSE]}
    /\ UNCHANGED <<now, nonAuVars, auReg, auIssued, auResp, auNext>>

\* register (auth.py 32-37): the SELECT by email in the request's transaction
\* sees committed rows.
AuRegCheck(r, email, password) ==
    /\ auReg[r].pc \in {"idle", "done"}
    /\ auNext + Cardinality({q \in RegSlots : auReg[q].pc = "checked"}) < Len(NewUserIds)
    /\ IF get_user_by_email(auUsers, email) # {}
       THEN auReg' = [auReg EXCEPT ![r] = [pc |-> "done", email |-> email,
                                           password |-> password, code |-> 400,
                                           user |-> ""]]
       ELSE auReg' = [auReg EXCEPT ![r] = [pc |-> "checked", email |-> email,
                                           password |-> password, code |-> 0,
                                           user |-> ""]]
    /\ UNCHANGED <<now, nonAuVars, auUsers, auIssued, auResp, auNext>>

\* Another request holds an INSERT of the same email that is not committed.
EmailHeld(r) ==
    \E q \in RegSlots \ {r} : auReg[q].pc = "flushed" /\ auReg[q].email = auReg[r].email

\* create_user (services/auth.py 75-85): db.flush() sends the INSERT. The
\* unique index on email (models/user.py 21) makes it wait while another
\* transaction holds the same email, and fail when a committed row has it:
\* IntegrityError, which register does not catch.
AuRegFlush(r) ==
    /\ auReg[r].pc = "checked"
    /\ ~EmailHeld(r)
    /\ IF get_user_by_email(auUsers, auReg[r].email) # {}
       THEN /\ auReg' = [auReg EXCEPT ![r].pc = "done", ![r].code = 500]
            /\ UNCHANGED auNext
       ELSE /\ auReg' = [auReg EXCEPT ![r].pc = "flushed",
                                      ![r].user = NewUserIds[auNext + 1]]
            /\ auNext' = auNext + 1
    /\ UNCHANGED <<now, nonAuVars, auUsers, auIssued, auResp>>

\* get_db: the transaction is committed when register has returned
\* create_tokens(user).
AuRegCommit(r) ==
    LET user == NewUser(auReg[r].user, auReg[r].email, auReg[r].password) IN
    /\ auReg[r].pc = "flushed"
    /\ auUsers' = auUsers \cup {user}
    /\ auReg' = [auReg EXCEPT ![r].pc = "done", ![r].code = 201]
    /\ UNCHANGED <<now, nonAuVars, auIssued, auResp, auNext>>

AuthInit ==
    /\ auUsers = InitialUsers
    /\ auReg = [r \in RegSlots |-> IdleReg]
    /\ auIssued = {}
    /\ auResp = NoAuResp
    /\ auNext = 0

AuthNext ==
    \/ AuAdvance
    \/ \E email \in Emails, password \in Passwords : AuLogin(email, password)
    \/ \E token \in PresentedTokens : AuRefresh(token)
    \/ \E u \in auUsers : AuDelete(u)
    \/ \E u \in auUsers : AuDeactivate(u)

\* POST /auth/register under concurrent requests
RegisterNext ==
    \/ \E r \in RegSlots, email \in Emails, password \in Passwords :
          AuRegCheck(r, email, password)
    \/ \E r \in RegSlots : AuRegFlush(r)
    \/ \E r \in RegSlots : AuRegCommit(r)

-----------------------------------------------------------------------------
(* Progress and submission of a generation task: image-service/app/api/ *)
(* tasks.py 25-38, 117-159; generate.py 27-80; schemas/image.py         *)

MaxElapsed == 20        \* seconds since the task started, at most
MaxSubmits == 2         \* POST /generate requests

MinOf(a, b) == IF a < b THEN a ELSE b
MaxOf(a, b) == IF a > b THEN a ELSE b

\* estimate_generation_time, as a fraction of base_pixels = 512 * 512:
\* 3.0 * (pixels / base_pixels) * num_images + 5.0
BasePixels == 512 * 512
EstimateTimes(width, height, num_images) ==
    3 * width * height * num_images + 5 * BasePixels

\* int((elapsed_seconds / estimated_seconds) * 100)
Percent(elapsed, width, height, num_images) ==
    (100 * elapsed * BasePixels) \div EstimateTimes(width, height, num_images)

\* tasks.py 123-159: the progress of the response
Progress(status, elapsed, width, height, num_images) ==
    LET est == EstimateTimes(width, height, num_images)
        progress == IF est > 0
                    THEN MinOf(95, Percent(elapsed, width, height, num_images))
                    ELSE 0 IN
    IF status = "completed" THEN 100
    ELSE IF status = "failed" THEN 0
    ELSE IF status = "pending" THEN 5
    ELSE IF elapsed < 2 THEN MaxOf(progress, 10)
    ELSE IF elapsed < 5 THEN MaxOf(progress, 20)
    ELSE IF est - elapsed * BasePixels > 0 THEN progress
    ELSE 90

\* The values a request may carry, inside and outside the accepted ranges.
\* A seed is given by seed \div 2^16, so that 2^31 can be written.
Widths == {248, 256, 260, 1024, 2048, 2056}
Heights == {256, 1024}
NumImages == {0, 1, 4, 5}
SeedHighs == {None, Some(0), Some(32767), Some(32768)}
GenerateRequests ==
    [width : Widths, height : Heights, num_images : NumImages, seed : SeedHighs]

\* ImageGenerateRequest (schemas/image.py 12-15)
ValidRequest(req) ==
    /\ req.width >= 256 /\ req.width <= 2048
    /\ req.height >= 256 /\ req.height <= 2048
    /\ req.num_images >= 1 /\ req.num_images <= 4
    /\ req.seed # None => req.seed[1] >= 0

\* The Integer column of seed (models/task.py 36) holds less than 2^31.
Int32High == 32768
FitsInteger(seed) == seed = None \/ seed[1] < Int32High

NoPoll == [status |-> "none", elapsed |-> 0, width |-> 256, height |-> 256,
           num_images |-> 1, progress |-> 0]

\* GET /tasks/{id} for a task with the given status and parameters, elapsed
\* seconds after it started.
PgPoll(status, elapsed, width, height, num_images) ==
    /\ pgPoll' = [status |-> status, elapsed |-> elapsed, width |-> width,
                  height |-> height, num_images |-> num_images,
                  progress |-> Progress(status, elapsed, width, height, num_images)]
    /\ UNCHANGED <<now, nonPgVars, gnRows, gnJobs, gnResp>>

\* POST /generate (generate.py 27-80): 422 from the validation of the body,
\* 500 when the INSERT of the flush raises, else the row and the job.
GnSubmit(req) ==
    /\ Cardinality(gnRows) < MaxSubmits
    /\ IF ~ValidRequest(req)
       THEN /\ gnResp' = [req |-> req, code |-> 422]
            /\ UNCHANGED <<gnRows, gnJobs>>
       ELSE IF ~FitsInteger(req.seed)
       THEN /\ gnResp' = [req |-> req, code |-> 500]
            /\ UNCHANGED <<gnRows, gnJobs>>
       ELSE /\ gnResp' = [req |-> req, code |-> 202]
            /\ gnRows' = gnRows \cup {req}
            /\ gnJobs' = gnJobs \cup {req}
    /\ UNCHANGED <<now, nonPgVars, pgPoll>>

GenerateInit ==
    /\ pgPoll = NoPoll
    /\ gnRows = {}
    /\ gnJobs = {}
    /\ gnResp = [req |-> [width |-> 256, height |-> 256, num_images |-> 1,
                          seed |-> None], code |-> 0]

ProgressNext ==
    \E status \in TaskStatus, elapsed \in 0..MaxElapsed,
       width \in {256, 1024}, height \in Heights, num_images \in {1, 4} :
        PgPoll(status, elapsed, width, height, num_images)

\* Successive polls of one task: its parameters stay, its status moves on
\* (pending, processing, completed) and time passes. elapsed is counted from
\* started_at, or from created_at while the task has not started, so it
\* starts again when the task starts.
StatusRank(status) ==
    IF status = "pending" THEN 1 ELSE IF status = "processing" THEN 2 ELSE 3

PgPollAgain(status, elapsed) ==
    /\ pgPoll.status \in {"pending", "processing"}
    /\ StatusRank(status) >= StatusRank(pgPoll.status)
    /\ status = pgPoll.status => elapsed >= pgPoll.elapsed
    /\ PgPoll(status, elapsed, pgPoll.width, pgPoll.height, pgPoll.num_images)

PgPollFirst(elapsed, width, height, num_images) ==
    /\ pgPoll.status = "none"
    /\ PgPoll("pending", elapsed, width, height, num_images)

ProgressSeqNext ==
    \/ \E elapsed \in 0..MaxElapsed, width \in {256, 1024}, height \in Heights,
          num_images \in {1, 4} : PgPollFirst(elapsed, width, height, num_images)
    \/ \E status \in {"pending", "processing", "completed"}, elapsed \in 0..MaxElapsed :
          PgPollAgain(status, elapsed)

GenSubmitNext == \E req \in GenerateRequests : GnSubmit(req)

-----------------------------------------------------------------------------
(* GPU telemetry: ml-worker/app/gpu_monitor.py, image-service/app/api/stats.py *)

GPU_STATS_TTL == 30
GpuTickStep == 10       \* time.sleep(10) of the monitor loop
MaxGpuTime == 60        \* the clock stops here

\* What get_gpu_info returns: a sample of the first GPU, a sample without a
\* GPU line, or an error.
GpuSamples ==
    {[available |-> TRUE, primary_gpu |-> Some([memory_used_gb |-> m])] : m \in {1, 2}}
    \cup {[available |-> TRUE, primary_gpu |-> None],
          [available |-> FALSE, primary_gpu |-> None]}

\* The gpu object of the response; a field the response lacks is None.
SampledGpu(primary_gpu) ==
    [memory_used_gb |-> primary_gpu.memory_used_gb, available |-> None]
ZeroedGpu == [memory_used_gb |-> 0, available |-> None]

\* redis GET: the value while the key has not expired
RedisGet(key, t) ==
    IF key # None /\ t < key[1].expires THEN Some(key[1].value) ELSE None

\* get_ml_status (stats.py 80-131); redis_ok: the GET does not raise
MlStatus(key, t, redis_ok) ==
    LET gpu_data == IF redis_ok THEN RedisGet(key, t) ELSE None IN
    IF gpu_data # None /\ gpu_data[1].available /\ gpu_data[1].primary_gpu # None
    THEN SampledGpu(gpu_data[1].primary_gpu[1])
    ELSE ZeroedGpu

GpuAdvance ==
    /\ now + GpuTickStep <= MaxGpuTime
    /\ now' = now + GpuTickStep
    /\ UNCHANGED <<coreVars, extVars>>

\* update_gpu_stats (gpu_monitor.py 83-94): setex with the TTL
GpuUpdate(sample) ==
    /\ gpuKey' = Some([value |-> sample, expires |-> now + GPU_STATS_TTL])
    /\ gpuLast' = Some(now)
    /\ UNCHANGED <<now, nonGpVars, gpuResp>>

\* GET /stats/ml/status
GpuStatus(redis_ok) ==
    /\ gpuResp' = [at |-> now, redis_ok |-> redis_ok, gpu |-> MlStatus(gpuKey, now, redis_ok)]
    /\ UNCHANGED <<now, nonGpVars, gpuKey, gpuLast>>

GpuInit ==
    /\ gpuKey = None
    /\ gpuLast = None
    /\ gpuResp = [at |-> 0, redis_ok |-> TRUE, gpu |-> ZeroedGpu]

GpuNext ==
    \/ GpuAdvance
    \/ \E sample \in GpuSamples : GpuUpdate(sample)
    \/ \E redis_ok \in BOOLEAN : GpuStatus(redis_ok)

-----------------------------------------------------------------------------
(* The proxy call, step by step: api-gateway/app/routes/proxy.py 24-70 *)

MaxChunks == 2          \* most chunks in an upstream body

ProxiedPaths == {"/v1/auth/login", "/v1/images/generate", "/v1/tasks/t1"}
UpstreamStatuses == {200, 404, 500}

\* The exceptions httpx raises, and the classes the handler names
ConnectExceptions == {"ConnectError", "ConnectTimeout"}
ReadExceptions == {"ReadTimeout", "ReadError", "RemoteProtocolError"}
IsConnectError(exc) == exc = "ConnectError"
IsTimeoutException(exc) == exc \in {"ConnectTimeout", "ReadTimeout"}

\* A variant of ProxyErrorCode that answers every failure alike.
ProxyErrorCodeFlat(exc) == 500

\* proxy.py 62-70: the except clauses in their order
ProxyErrorCode(exc) ==
    IF IsConnectError(exc) THEN 503
    ELSE IF IsTimeoutException(exc) THEN 504
    ELSE 500

Chunks(n) == [i \in 1..n |-> <<"chunk", i>>]

IdleProxy == [pc |-> "idle", path |-> "", status |-> 0, chunks |-> 0, read |-> 0,
              exc |-> ""]

\* A request reaches proxy_request and http_client.request is awaited.
PxStart(path) ==
    /\ px.pc = "idle"
    /\ px' = [IdleProxy EXCEPT !.pc = "connecting", !.path = path]
    /\ pxSent' = <<>>
    /\ UNCHANGED <<now, nonPxVars>>

\* The connection is made and the upstream answers a status line and headers.
PxConnected(status, n) ==
    /\ px.pc = "connecting"
    /\ px' = [px EXCEPT !.pc = "reading", !.status = status, !.chunks = n]
    /\ UNCHANGED <<now, nonPxVars, pxSent>>

\* http_client.request reads the body before it returns.
PxReadChunk ==
    /\ px.pc = "reading"
    /\ px.read < px.chunks
    /\ px' = [px EXCEPT !.read = @ + 1]
    /\ UNCHANGED <<now, nonPxVars, pxSent>>

\* The call raises while connecting or while reading: the except clauses
\* raise HTTPException, which is answered as one response.
PxRaise(exc) ==
    /\ \/ px.pc = "connecting" /\ exc \in ConnectExceptions
       \/ px.pc = "reading" /\ px.read < px.chunks /\ exc \in ReadExceptions
    /\ px' = [px EXCEPT !.pc = "idle", !.exc = exc]
    /\ pxSent' = Append(pxSent, [code |-> ProxyErrorCode(exc), body |-> <<>>,
                                 upstream |-> FALSE])
    /\ UNCHANGED <<now, nonPxVars>>

\* The call has returned: StreamingResponse over the body that was read.
PxRespond ==
    /\ px.pc = "reading"
    /\ px.read = px.chunks
    /\ px' = [px EXCEPT !.pc = "idle"]
    /\ pxSent' = Append(pxSent, [code |-> px.status, body |-> Chunks(px.read),
                                 upstream |-> TRUE])
    /\ UNCHANGED <<now, nonPxVars>>

ProxyInit ==
    /\ px = IdleProxy
    /\ pxSent = <<>>

ProxyNext ==
    \/ \E path \in ProxiedPaths : PxStart(path)
    \/ \E status \in UpstreamStatuses, n \in 0..MaxChunks : PxConnected(status, n)
    \/ PxReadChunk
    \/ \E exc \in ConnectExceptions \cup ReadExceptions : PxRaise(exc)
    \/ PxRespond

-----------------------------------------------------------------------------
(* The two endpoints of the object store (ml-worker/app/config.py and the
   task modules of ml-worker/app/tasks) *)

MINIO_ENDPOINT == "minio:9000"
MINIO_EXTERNAL_URL == "http://192.168.1.81:9020"
MINIO_BUCKET == "zimage-images"

\* A URL is its base (scheme and host) and the key of the object.
StoreUrl(base, object_name) == [base |-> base, object |-> object_name]

InternalBase == "http://" \o MINIO_ENDPOINT

\* The tasks of background_removal.py, sam_segmentation.py, style_transfer.py
PlainKinds ==
    {"remove_background", "replace_background", "replace_background_color",
     "get_background_mask", "segment_point", "segment_box", "segment_auto",
     "apply_style"}

\* The ones whose payload carries mask_url instead of an image url
MaskKinds == {"get_background_mask", "segment_point", "segment_box"}

\* generate_image and inpaint_image: the url of a stored image
ExternalObjectUrl(object_name) ==
    StoreUrl(MINIO_EXTERNAL_URL, MINIO_BUCKET \o "/" \o object_name)

\* upload_to_minio of the three other modules: the URL it returns
upload_to_minio(bucket, object_name) ==
    StoreUrl(InternalBase, bucket \o "/" \o object_name)

\* load_image_from_url of inpainting.py: the URL it requests
InpaintFetchUrl(url) ==
    IF url.base = MINIO_EXTERNAL_URL
    THEN [url EXCEPT !.base = InternalBase]
    ELSE url

\* load_image_from_url of the three other modules: the URL it requests
PlainFetchUrl(url) == url

\* The key of the result of a task of this kind
ResultObject(kind) == "images/u1/" \o kind \o ".png"

\* generate_image returns; GET /tasks/{id} returns the payload's url and
\* saves it as the url of the Image row.
UrGenerate ==
    LET url == ExternalObjectUrl(ResultObject("generate_image")) IN
    /\ urPayloads' = urPayloads \cup {[kind |-> "generate_image",
                                       field |-> "url", url |-> url]}
    /\ urImages' = urImages \cup {url}
    /\ UNCHANGED <<now, nonUrVars, urFetched>>

\* inpaint_image on a stored image: it loads the original, and its payload's
\* url is returned and saved as the url of the new Image row.
UrInpaint(original_image_url) ==
    LET url == ExternalObjectUrl(ResultObject("inpaint_image")) IN
    /\ original_image_url \in urImages
    /\ urFetched' = urFetched \cup {[kind |-> "inpaint_image",
                                     url |-> InpaintFetchUrl(original_image_url)]}
    /\ urPayloads' = urPayloads \cup {[kind |-> "inpaint_image",
                                       field |-> "url", url |-> url]}
    /\ urImages' = urImages \cup {url}
    /\ UNCHANGED <<now, nonUrVars>>

\* A task of the three other modules on a stored image (get_image_url gives
\* the url column): it loads the image, uploads its result and returns the
\* URL of the upload; the status endpoint returns the payload as it is.
UrPlain(kind, image_url) ==
    /\ kind \in PlainKinds
    /\ image_url \in urImages
    /\ urFetched' = urFetched \cup {[kind |-> kind,
                                     url |-> PlainFetchUrl(image_url)]}
    /\ urPayloads' = urPayloads \cup
           {[kind |-> kind,
             field |-> IF kind \in MaskKinds THEN "mask_url" ELSE "url",
             url |-> upload_to_minio(MINIO_BUCKET, ResultObject(kind))]}
    /\ UNCHANGED <<now, nonUrVars, urImages>>

UrlInit ==
    /\ urImages = {}
    /\ urFetched = {}
    /\ urPayloads = {}

UrlNext ==
    \/ UrGenerate
    \/ \E url \in urImages : UrInpaint(url)
    \/ \E kind \in PlainKinds, url \in urImages : UrPlain(kind, url)

-----------------------------------------------------------------------------
(* The jobs of background_removal.py, sam_segmentation.py, style_transfer.py *)

\* Where the body of such a task may raise
PlainStages == {"load_image", "pipeline", "upload"}

NoPlainJob ==
    [phase |-> "none", kind |-> "", executions |-> 0, raised |-> 0, retries |-> 0,
     redeliveries |-> 0,
     entry |-> [state |-> "NONE", status |-> "none", error |-> None]]

\* The image service sends the job.
PjEnqueue(kind) ==
    /\ pj.phase = "none"
    /\ pj' = [pj EXCEPT !.phase = "queued", !.kind = kind,
                        !.entry.state = "PENDING"]
    /\ UNCHANGED <<now, nonPjVars>>

\* A worker takes the message.
PjStart ==
    /\ pj.phase = "queued"
    /\ pj' = [pj EXCEPT !.phase = "running", !.executions = @ + 1,
                        !.entry.state = "STARTED"]
    /\ UNCHANGED <<now, nonPjVars>>

\* The body runs to its end: the completed result.
PjReturn ==
    /\ pj.phase = "running"
    /\ pj' = [pj EXCEPT !.phase = "unacked",
                        !.entry = [state |-> "SUCCESS", status |-> "completed",
                                   error |-> None]]
    /\ UNCHANGED <<now, nonPjVars>>

\* The body raises at a stage: the except clause of the task logs the error
\* and returns the failed result. The tasks are not bound and call no retry.
PjRaise(stage) ==
    /\ pj.phase = "running"
    /\ pj' = [pj EXCEPT !.phase = "unacked", !.raised = @ + 1,
                        !.entry = [state |-> "SUCCESS", status |-> "failed",
                                   error |-> Some(stage)]]
    /\ UNCHANGED <<now, nonPjVars>>

\* celery_app.py 41: the message is acknowledged after the task has returned.
PjAck ==
    /\ pj.phase = "unacked"
    /\ pj' = [pj EXCEPT !.phase = "acked"]
    /\ UNCHANGED <<now, nonPjVars>>

\* celery_app.py 41-42: the worker is lost before the acknowledgement and the
\* broker delivers the message again.
PjLost ==
    /\ pj.phase \in {"running", "unacked"}
    /\ pj.redeliveries < MaxRedeliveries
    /\ pj' = [pj EXCEPT !.phase = "queued", !.redeliveries = @ + 1]
    /\ UNCHANGED <<now, nonPjVars>>

PlainJobInit == pj = NoPlainJob

PlainJobNext ==
    \/ \E kind \in PlainKinds : PjEnqueue(kind)
    \/ PjStart
    \/ PjReturn
    \/ \E stage \in PlainStages : PjRaise(stage)
    \/ PjAck
    \/ PjLost

-----------------------------------------------------------------------------
(* The worker process and its pipelines: ml-worker/app/ml/pipeline.py,
   ml/inpaint_pipeline.py, and the bodies of generate_image, inpaint_image *)

MaxExecutions == 4      \* most job executions of one worker process

PipelineKinds == {"generate", "inpaint"}

\* The class attributes _instance and _is_loaded, the module's accessor
\* variable (0 stands for None, other numbers for objects), and the calls
\* of from_pretrained made and those that succeeded.
NoPipeline ==
    [instance |-> 0, global |-> 0, loaded |-> FALSE, attempts |-> 0, loads |-> 0]

\* __new__: the class's one instance, created when there is none yet
New(p, fresh) == IF p.instance = 0 THEN [p EXCEPT !.instance = fresh] ELSE p

\* _load_model, load: from_pretrained and enable_model_cpu_offload succeed
\* (ok) and _is_loaded is set, or one of them raises and it is not.
LoadModel(p, ok) ==
    [p EXCEPT !.attempts = @ + 1,
              !.loads = IF ok THEN @ + 1 ELSE @,
              !.loaded = IF ok THEN TRUE ELSE @]

\* A variant of get_pipeline that keeps the instance whose load failed.
get_pipeline_keeping(p, fresh, ok) ==
    IF p.global # 0 THEN [p |-> p, raised |-> FALSE, value |-> p.global]
    ELSE LET n == New(p, fresh)
             l == IF ~n.loaded THEN LoadModel(n, ok) ELSE n IN
         [p |-> [l EXCEPT !.global = l.instance], raised |-> FALSE,
          value |-> l.instance]

\* get_pipeline: ImagePipeline() runs __new__ and __init__, which loads
\* the model unless _is_loaded; an exception of the load leaves the
\* accessor's variable None.
get_pipeline(p, fresh, ok) ==
    IF p.global # 0 THEN [p |-> p, raised |-> FALSE, value |-> p.global]
    ELSE LET n == New(p, fresh)
             l == IF ~n.loaded THEN LoadModel(n, ok) ELSE n IN
         IF ~n.loaded /\ ~ok
         THEN [p |-> l, raised |-> TRUE, value |-> 0]
         ELSE [p |-> [l EXCEPT !.global = l.instance], raised |-> FALSE,
               value |-> l.instance]

\* get_inpaint_pipeline: InpaintPipeline() loads nothing.
get_inpaint_pipeline(p, fresh) ==
    IF p.global # 0 THEN [p |-> p, raised |-> FALSE, value |-> p.global]
    ELSE LET n == New(p, fresh) IN
         [p |-> [n EXCEPT !.global = n.instance], raised |-> FALSE,
          value |-> n.instance]

\* ImagePipeline.generate loads nothing; InpaintPipeline.inpaint 117-118
\* loads the model unless _is_loaded.
EnsureLoaded(kind, p, ok) ==
    IF kind = "inpaint" /\ ~p.loaded THEN LoadModel(p, ok) ELSE p

\* pc: none, get (before the accessor), run (before the pipeline's call),
\* upload (the model has run), ended. model: the pipeline ran its model in
\* this execution; unloaded: it did so on an instance that is not loaded.
NoRun ==
    [pc |-> "none", kind |-> "generate", retries |-> 0, value |-> 0,
     model |-> FALSE, unloaded |-> FALSE, outcome |-> "none", executions |-> 0]

\* The except clause of the task: retry, or the failed result.
Raised(run) ==
    IF run.retries < max_retries
    THEN [run EXCEPT !.pc = "ended", !.outcome = "retry", !.retries = @ + 1]
    ELSE [run EXCEPT !.pc = "ended", !.outcome = "failed"]

\* The worker starts the next execution: a new job, or the retry of the last.
PlStart(kind) ==
    /\ plRun.pc \in {"none", "ended"}
    /\ plRun.executions < MaxExecutions
    /\ plRun.outcome = "retry" => kind = plRun.kind
    /\ plRun' = [plRun EXCEPT !.pc = "get", !.kind = kind,
                              !.retries = IF plRun.outcome = "retry" THEN @ ELSE 0,
                              !.value = 0, !.model = FALSE, !.unloaded = FALSE,
                              !.outcome = "none", !.executions = @ + 1]
    /\ UNCHANGED <<now, nonPlVars, pl, plObj, plPool, plSeen>>

\* pipeline = get_pipeline() / get_inpaint_pipeline()
PlGet(ok) ==
    LET kind == plRun.kind
        r == IF kind = "generate" THEN get_pipeline(pl[kind], plObj + 1, ok)
             ELSE get_inpaint_pipeline(pl[kind], plObj + 1) IN
    /\ plRun.pc = "get"
    /\ pl' = [pl EXCEPT ![kind] = r.p]
    /\ plObj' = IF r.p.instance # pl[kind].instance THEN plObj + 1 ELSE plObj
    /\ IF r.raised
       THEN /\ plRun' = Raised(plRun)
            /\ UNCHANGED plSeen
       ELSE /\ plRun' = [plRun EXCEPT !.pc = "run", !.value = r.value]
            /\ plSeen' = [plSeen EXCEPT ![kind] = @ \cup {r.value}]
    /\ UNCHANGED <<now, nonPlVars, plPool>>

\* pipeline.generate(...) / pipeline.inpaint(...): the model runs, on the
\* GPU, and returns the images (ran) or raises; or the load inside inpaint
\* raises before it.
PlRunModel(ok, ran) ==
    LET kind == plRun.kind
        p == EnsureLoaded(kind, pl[kind], ok) IN
    /\ plRun.pc = "run"
    /\ pl' = [pl EXCEPT ![kind] = p]
    /\ IF kind = "inpaint" /\ ~p.loaded
       THEN /\ plRun' = Raised(plRun)
            /\ UNCHANGED plPool
       ELSE /\ plPool' = "cached"
            /\ plRun' = IF ran
                        THEN [plRun EXCEPT !.pc = "upload", !.model = TRUE,
                                           !.unloaded = ~p.loaded]
                        ELSE [Raised(plRun) EXCEPT !.model = TRUE,
                                                   !.unloaded = ~p.loaded]
    /\ UNCHANGED <<now, nonPlVars, plObj, plSeen>>

\* The uploads, then pipeline.cleanup() and the completed result; or an
\* upload raises.
PlUpload(ok) ==
    /\ plRun.pc = "upload"
    /\ IF ok
       THEN /\ plPool' = "empty"
            /\ plRun' = [plRun EXCEPT !.pc = "ended", !.outcome = "completed"]
       ELSE /\ plRun' = Raised(plRun)
            /\ UNCHANGED plPool
    /\ UNCHANGED <<now, nonPlVars, pl, plObj, plSeen>>

PipelineInit ==
    /\ pl = [k \in PipelineKinds |-> NoPipeline]
    /\ plObj = 0
    /\ plRun = NoRun
    /\ plPool = "empty"
    /\ plSeen = [k \in PipelineKinds |-> {}]

PipelineNext ==
    \/ \E kind \in PipelineKinds : PlStart(kind)
    \/ \E ok \in BOOLEAN : PlGet(ok)
    \/ \E ok \in BOOLEAN, ran \in BOOLEAN : PlRunModel(ok, ran)
    \/ \E ok \in BOOLEAN : PlUpload(ok)

-----------------------------------------------------------------------------
(* Submissions of background, SAM and style tasks for a stored image:
   image-service/app/api/background.py, api/sam.py, api/style.py *)

MaxPlainSubmits == 1    \* submissions accepted
MaxRejectTasks == 3     \* inpaint tasks, of POST /inpaint and of replays together

\* A variant of get_image_url that answers for an id without a row.
get_image_url_unchecked(rows, image_id) == Some(image_id)

\* get_image_url: the url of the Image row with this id (the id stands for
\* it), None when it raises 404.
get_image_url(rows, image_id) ==
    IF \E im \in rows : im.id = image_id THEN Some(image_id) ELSE None

\* POST /background/remove, /sam/segment/point, /style/apply, ...
RjSubmit(kind, image_id) ==
    LET image_url == get_image_url(edImages, image_id) IN
    /\ IF image_url = None
       THEN /\ rjResp' = 404
            /\ UNCHANGED rjJobs
       ELSE /\ Cardinality(rjJobs) < MaxPlainSubmits
            /\ rjJobs' = rjJobs \cup {[name |-> kind, image_url |-> image_url[1]]}
            /\ rjResp' = 202
    /\ UNCHANGED <<now, nonRjVars>>

RejectInit ==
    /\ rjJobs = {}
    /\ rjResp = 0

\* The callers, the image ids (one with a row, one without) and the inpaint
\* request of these runs
RejectUsers == {Some("u1"), Some("u2")}
RejectImageIds == {ImageOfU1, Uuid(3)}
RejectRequests == {req \in MaskRequests : req.seed = None /\ req.negative_prompt = None}

\* The submissions of editing tasks, and the worker
RejectNext ==
    \/ /\ Cardinality(edTasks) < MaxRejectTasks
       /\ \E x \in RejectUsers, req \in RejectRequests, im \in RejectImageIds :
             EdInpaint(x, req, im, <<137, 80>>)
    \/ \E t \in edTasks, r \in WorkerSeeds : EdComplete(t, <<137, 80>>, r)
    \/ /\ Cardinality(edTasks) < MaxRejectTasks
       /\ \E x \in RejectUsers, h \in {Uuid(n) : n \in 1..edNext}, im \in RejectImageIds :
             EdReplay(x, h, im)
    \/ \E kind \in {"remove_background", "apply_style"}, im \in RejectImageIds :
          RjSubmit(kind, im)

-----------------------------------------------------------------------------
(* The gallery: image-service/app/api/gallery.py *)

GaSessions == {"s1", "s2"}      \* requests served at the same time
GaOps == {"favorite", "delete"}

\* A variant of Toggled that marks the image as a favorite.
ToggledOn(is_favorite) == TRUE

\* image.is_favorite = not image.is_favorite
Toggled(is_favorite) == ~is_favorite

\* select(Image).where(Image.id == image_id, Image.user_id == UUID(user_id))
OwnImage(rows, image_id, user_id) ==
    {im \in rows : im.id = image_id /\ im.user_id = user_id}

IdleGa ==
    [pc |-> "idle", op |-> "favorite", x |-> None, image |-> Uuid(0),
     row |-> [id |-> Uuid(0), user_id |-> "", is_favorite |-> FALSE]]

\* GET /gallery/{image_id}
GaGet(s, x_user_id, image_id) ==
    /\ gaReq[s].pc = "idle"
    /\ gaResp' = [gaResp EXCEPT ![s] =
                     IF OwnImage(gaImages, image_id, HeaderUser(x_user_id)) = {}
                     THEN 404 ELSE 200]
    /\ UNCHANGED <<now, nonGaVars, gaImages, gaReq, gaTrail>>

\* POST /gallery/{image_id}/favorite and DELETE /gallery/{image_id}, up to
\* the SELECT: 404, or the row is loaded into the session.
GaSelect(s, x_user_id, op, image_id) ==
    LET found == OwnImage(gaImages, image_id, HeaderUser(x_user_id)) IN
    /\ gaReq[s].pc = "idle"
    /\ IF found = {}
       THEN /\ gaResp' = [gaResp EXCEPT ![s] = 404]
            /\ UNCHANGED gaReq
       ELSE /\ gaReq' = [gaReq EXCEPT ![s] =
                            [pc |-> "loaded", op |-> op, x |-> x_user_id,
                             image |-> image_id, row |-> CHOOSE im \in found : TRUE]]
            /\ UNCHANGED gaResp
    /\ UNCHANGED <<now, nonGaVars, gaImages, gaTrail>>

\* The rest of the handler: the UPDATE of is_favorite or the DELETE, by
\* primary key, and the commit. A row that was deleted since the SELECT
\* matches nothing and the request fails.
GaCommit(s) ==
    LET r == gaReq[s]
        cur == {im \in gaImages : im.id = r.image} IN
    /\ r.pc = "loaded"
    /\ gaReq' = [gaReq EXCEPT ![s] = IdleGa]
    /\ IF cur = {}
       THEN /\ gaResp' = [gaResp EXCEPT ![s] = 500]
            /\ UNCHANGED <<gaImages, gaTrail>>
       ELSE LET row == CHOOSE im \in cur : TRUE
                new == [row EXCEPT !.is_favorite = Toggled(r.row.is_favorite)] IN
            /\ gaResp' = [gaResp EXCEPT ![s] = 200]
            /\ IF r.op = "delete"
               THEN /\ gaImages' = gaImages \ cur
                    /\ gaTrail' = [gaTrail EXCEPT ![r.image] = <<>>]
               ELSE /\ gaImages' = (gaImages \ cur) \cup {new}
                    /\ gaTrail' = [gaTrail EXCEPT ![r.image] =
                          IF r.row = row
                          THEN LastN(Append(@, [before |-> row.is_favorite,
                                                after |-> new.is_favorite]), 2)
                          ELSE <<>>]
    /\ UNCHANGED <<now, nonGaVars>>

GalleryInit ==
    /\ gaImages = {[id |-> ImageOfU1, user_id |-> "u1", is_favorite |-> FALSE],
                   [id |-> ImageOfU2, user_id |-> "u2", is_favorite |-> FALSE]}
    /\ gaReq = [s \in GaSessions |-> IdleGa]
    /\ gaResp = [s \in GaSessions |-> 0]
    /\ gaTrail = [i \in ImageIds |-> <<>>]

GalleryNext ==
    \/ \E s \in GaSessions, x \in HeaderUsers, im \in ImageIds : GaGet(s, x, im)
    \/ \E s \in GaSessions, x \in HeaderUsers, op \in GaOps, im \in ImageIds :
          GaSelect(s, x, op, im)
    \/ \E s \in GaSessions : GaCommit(s)

-----------------------------------------------------------------------------
(* The expiry of results in the queue's result backend: celery_app.py 43 *)

result_expires == 3600
ExTickStep == 1800      \* the clock advances by half an hour
MaxExTime == 3600       \* and stops here

ExTick ==
    /\ now < MaxExTime
    /\ now' = now + ExTickStep
    /\ UNCHANGED <<coreVars, extVars>>

\* The backend drops a result result_expires seconds after it was stored;
\* AsyncResult then reports the id as it does an id it never saw. The jobs
\* of these runs finish at time 0, so that the clock is the age of a result.
ResultExpires(t) ==
    /\ Ready(celery[t])
    /\ now >= result_expires
    /\ celery' = [celery EXCEPT ![t] = [state |-> "NONE", result |-> NoResult]]
    /\ UNCHANGED <<nonPollVars, now, tasks, images, history, poll, lock, nextUuid, lastResp>>

\* The worker, at time 0
ExWorker ==
    \E t \in GenTaskIds :
        \/ Submit(t)
        \/ WorkerStart(t)
        \/ now = 0 /\ WorkerReturn(t)
        \/ now = 0 /\ WorkerRaise(t)

\* One poll of GET /tasks/{id}, step by step
ExPoll(p) ==
    \/ \E t \in GenTaskIds : PollNotFound(p, t)
    \/ \E t \in GenTaskIds : PollLoad(p, t)
    \/ GenReconcile(p)
    \/ Commit(p)

ExpireNext ==
    \/ ExTick
    \/ ExWorker
    \/ \E t \in GenTaskIds : ResultExpires(t)
    \/ \E p \in Pollers : ExPoll(p)

-----------------------------------------------------------------------------
(* The specifications *)

OrigImage ==
    [id |-> OrigImageId, task_id |-> None, inpaint_task_id |-> None,
     object_name |-> OrigImageId]

ImageServiceInit ==
    /\ tasks = [t \in TaskIds |-> AbsentRow]
    /\ images = {OrigImage}
    /\ history = {}
    /\ celery = [t \in TaskIds |-> [state |-> "NONE", result |-> NoResult]]
    /\ poll = [p \in Pollers |-> IdlePoll]
    /\ lock = [t \in TaskIds |-> "free"]
    /\ nextUuid = 0
    /\ lastResp = [p \in Pollers |-> NoResp]

RateInit ==
    /\ requests = [c \in Clients |-> <<>>]
    /\ slots = [s \in Slots |-> IdleSlot]
    /\ rl = [c \in Clients |-> NoClientHistory]

GatewayInit ==
    /\ issued = {}
    /\ lastGw = NoGwResp
    /\ authOut = NoGwResp

Init ==
    /\ now = 0
    /\ ImageServiceInit
    /\ RateInit
    /\ GatewayInit
    /\ StatelessInit
    /\ WorkerInit
    /\ EditInit
    /\ SubmitInit
    /\ AuthInit
    /\ GenerateInit
    /\ GpuInit
    /\ ProxyInit
    /\ UrlInit
    /\ PlainJobInit
    /\ PipelineInit
    /\ RejectInit
    /\ GalleryInit

\* What the worker and the clock do, for the tasks in T.
WorkerNext(T) ==
    \/ Tick
    \/ \E t \in T : Submit(t)
    \/ \E t \in T : WorkerStart(t)
    \/ \E t \in T : WorkerReturn(t)
    \/ \E t \in T : WorkerRaise(t)

\* GET /tasks/{id}
GenPollNext ==
    \/ WorkerNext(GenTaskIds)
    \/ \E p \in Pollers, t \in GenTaskIds : PollNotFound(p, t)
    \/ \E p \in Pollers, t \in GenTaskIds : PollLoad(p, t)
    \/ \E p \in Pollers : GenReconcile(p)
    \/ \E p \in Pollers : Commit(p)

\* GET /images/inpaint/tasks/{id}
InpPollNext ==
    \/ WorkerNext(InpTaskIds)
    \/ \E p \in Pollers, t \in InpTaskIds : PollNotFound(p, t)
    \/ \E p \in Pollers, t \in InpTaskIds : PollLoad(p, t)
    \/ \E p \in Pollers : InpReconcile(p)
    \/ \E p \in Pollers : InpFlush(p)
    \/ \E p \in Pollers : InpFlushConflict(p)
    \/ \E p \in Pollers : Commit(p)

\* The rate limiter under concurrent requests of one client
RateNext ==
    \/ AdvanceRate
    \/ \E s \in Slots, req \in RequestsOf("a") : RLExcluded(s, req)
    \/ \E s \in Slots, req \in RequestsOf("a") : RLReject(s, req)
    \/ \E s \in Slots, req \in RequestsOf("a") : RLAdmit(s, req)
    \/ \E s \in Slots : RLCallNext(s)
    \/ \E s \in Slots : RLHeaders(s)

\* The rate limiter under the requests of two clients, one request at a time
RateBothNext ==
    \/ AdvanceRate
    \/ \E c \in Clients : \E req \in RequestsOf(c) : RLExcluded("s1", req)
    \/ \E c \in Clients : \E req \in RequestsOf(c) : RLReject("s1", req)
    \/ \E c \in Clients : \E req \in RequestsOf(c) : RLAdmit("s1", req)
    \/ RLCallNext("s1")
    \/ RLHeaders("s1")

\* The gateway, request by request
GatewayNext ==
    \/ GwAdvance
    \/ \E user \in Users : Login(user)
    \/ \E req \in GwRequests : GwHandle(req)

\* The auth middleware as a unit
AuthStepNext ==
    \/ GwAdvance
    \/ \E user \in Users : Login(user)
    \/ \E req \in GwRequests : AuthStep(req)

vars == <<now, pollVars, rateVars, gwVars, extVars>>

SpecGenPoll == Init /\ [][GenPollNext]_vars
SpecInpPoll == Init /\ [][InpPollNext]_vars
SpecRate == Init /\ [][RateNext]_vars
SpecRateBoth == Init /\ [][RateBothNext]_vars
SpecGateway == Init /\ [][GatewayNext]_vars
SpecAuthStep == Init /\ [][AuthStepNext]_vars
SpecStateless == Init /\ [][StatelessNext]_vars
SpecWorker == Init /\ [][WorkerJobNext]_vars
SpecEdit == Init /\ [][EditNext]_vars
\* The image service keeps serving requests.
SpecEditFair == Init /\ [][EditDeleteNext]_vars /\ WF_vars(EditDeleteNext)
SpecSubmit == Init /\ [][SubmitNext]_vars
SpecAuth == Init /\ [][AuthNext]_vars
SpecRegister == Init /\ [][RegisterNext]_vars
SpecProxy == Init /\ [][ProxyNext]_vars
SpecUrls == Init /\ [][UrlNext]_vars
SpecPlainJob == Init /\ [][PlainJobNext]_vars
SpecPipeline == Init /\ [][PipelineNext]_vars
SpecReject == Init /\ [][RejectNext]_vars
\* The clients keep polling and the worker keeps working.
SpecExpireFair ==
    /\ Init /\ [][ExpireNext]_vars
    /\ \A p \in Pollers : WF_vars(ExPoll(p))
    /\ WF_vars(ExWorker)
SpecGallery == Init /\ [][GalleryNext]_vars
SpecGpu == Init /\ [][GpuNext]_vars
SpecProgress == Init /\ [][ProgressNext]_vars
SpecProgressSeq == Init /\ [][ProgressSeqNext]_vars
SpecGenSubmit == Init /\ [][GenSubmitNext]_vars
\* The client keeps polling and the worker keeps working.
SpecStatelessFair ==
    /\ SpecStateless
    /\ \A k \in SlKinds : WF_vars(SlPoll(k))
    /\ \A q \in SlIds : WF_vars(SlWorkerStart(q)) /\ WF_vars(SlWorkerReturn(q))

-----------------------------------------------------------------------------
(* Properties of the reconciler *)

Terminal == {"completed", "failed"}

CompletedInQueue(t) ==
    celery[t].state = "SUCCESS" /\ celery[t].result.status = "completed"

GenImagesOf(t) == {im \in images : im.task_id = Some(t)}
InpImagesOf(t) == {im \in images : im.inpaint_task_id = Some(t)}
HistoryOf(t) == {h \in history : h.inpaint_task_id = Some(t)}

\* C1: for a generation task whose queue result is completed with k images,
\* there are never more than k Image rows with its task_id, and exactly k once
\* the row is completed, whatever polls ran and however they interleaved.
C1_AtMostOnceMaterialization ==
    \A t \in GenTaskIds :
        CompletedInQueue(t) =>
            LET k == Len(celery[t].result.images) IN
            /\ Cardinality(GenImagesOf(t)) <= k
            /\ tasks[t].status = "completed" => Cardinality(GenImagesOf(t)) = k

\* C2: for an inpaint task whose completed result lists k images, any
\* interleaving of polls leaves at most k Image rows and k EditHistory rows
\* (exactly k, one per result image, once the row is completed), each history
\* row being of type inpaint, naming the task, its original image, one result
\* image and the result's mask key.
C2_InpaintRowsOnce ==
    \A t \in InpTaskIds :
        CompletedInQueue(t) =>
            LET es == celery[t].result.images
                k == Len(es) IN
            /\ Cardinality(InpImagesOf(t)) <= k
            /\ Cardinality(HistoryOf(t)) <= k
            /\ \A h \in HistoryOf(t) :
                  /\ h.edit_type = "inpaint"
                  /\ h.original_image_id = tasks[t].original_image_id
                  /\ h.mask_object_name = celery[t].result.mask_object_name
                  /\ \E i \in 1..k : h.edited_image_id = Some(es[i].id)
            /\ \A i \in 1..k :
                  Cardinality({h \in HistoryOf(t) : h.edited_image_id = Some(es[i].id)}) <= 1
            /\ tasks[t].status = "completed" =>
                  /\ Cardinality(HistoryOf(t)) = k
                  /\ {im.id : im \in InpImagesOf(t)} = {es[i].id : i \in 1..k}

\* A second poll found the rows of a completed two-image result in place and
\* was turned away.
C2_Witness ==
    /\ tasks["inp1"].status = "completed"
    /\ CompletedInQueue("inp1")
    /\ Cardinality(HistoryOf("inp1")) = 2
    /\ Cardinality(InpImagesOf("inp1")) = 2
    /\ \E p \in Pollers : lastResp[p].code = 500

\* C3: once a task row is completed or failed, no step changes any of its
\* fields.
C3_TerminalImmutability ==
    [][\A t \in TaskIds : tasks[t].status \in Terminal => tasks'[t] = tasks[t]]_vars

\* C4: the status of a task row changes only along
\* pending -> processing -> (completed | failed).
C4_StatusMachine ==
    [][\A t \in TaskIds :
          tasks'[t].status # tasks[t].status =>
              <<tasks[t].status, tasks'[t].status>> \in
                  {<<"absent", "pending">>, <<"pending", "processing">>,
                   <<"processing", "completed">>, <<"processing", "failed">>}]_vars

-----------------------------------------------------------------------------
(* Properties of the rate limiter *)

C9_QuietRestoresAllowance ==
    \A c \in Clients :
        rl[c].sinceQuiet \in 1..rate_limit => rl[c].verdict = "admitted"

\* A client that was rejected earlier has stayed quiet for a window and has
\* had rate_limit requests admitted since.
C9_Witness ==
    /\ rl["a"].rejectCode = 429
    /\ rl["a"].runStart # None /\ rl["a"].runStart[1] >= window
    /\ rl["a"].sinceQuiet = rate_limit
    /\ rl["a"].verdict = "admitted"

\* C10: every response to a request on a non-excluded path carries the
\* X-RateLimit headers, the 429 included; the k-th of the requests a client
\* sends one after the other within 60 seconds is answered with
\* Remaining = max(0, rate_limit - k): 2, 1, 0, 0 for a limit of 3.
C10_HeadersOnEveryResponse ==
    \A c \in Clients :
        rl[c].resp.code # 0 =>
            /\ rl[c].resp.headers.present
            /\ rl[c].resp.headers.limit = rate_limit
            /\ rl[c].resp.k \in 1..(rate_limit + 1) =>
                  rl[c].resp.headers.remaining = Max(0, rate_limit - rl[c].resp.k)

-----------------------------------------------------------------------------
(* Properties of the gateway *)

\* The paths the gateway forwards that are not under a public prefix other
\* than the root
Protected(path) ==
    /\ Route(path) = "proxy"
    /\ ~\E p \in PUBLIC_PATHS \ {"/"} : StartsWith(path, p)

\* The claims of the bearer token of a request that verify at time t, None
\* when the request has no such token.
VerifiedClaims(req, t) ==
    IF req.authorization = None \/ req.authorization[1].scheme # "Bearer" THEN None
    ELSE JwtDecode(req.authorization[1].token, JWT_SECRET, t)

\* C5: a request to a protected path whose Authorization header is missing,
\* malformed, tampered with or expired is answered 401 and nothing is sent
\* upstream for it (a request the rate limiter turned away aside).
C5_BadAuthorizationIs401 ==
    (/\ lastGw.handled
     /\ Protected(lastGw.req.path)
     /\ lastGw.code # 429
     /\ VerifiedClaims(lastGw.req, lastGw.at) = None)
    => lastGw.code = 401 /\ lastGw.upstream = None

\* C6: what the upstream receives as X-User-ID and X-User-Role are the sub and
\* role of the token verified for the request, and never a value the client
\* put in those headers.
C6_UpstreamIdentityIsTheTokens ==
    lastGw.upstream # None =>
        LET h == lastGw.upstream[1].headers
            payload == VerifiedClaims(lastGw.req, lastGw.at) IN
        /\ h.x_user_id = None /\ h.x_user_role = None
        /\ (Protected(lastGw.req.path) /\ payload # None) =>
              /\ h.X_User_ID = Some(payload[1].sub)
              /\ h.X_User_Role = payload[1].role

\* C7: the auth step turns away a refresh token that verifies, presented as
\* Bearer on a protected path, and attaches no identity to the request.
C7_RefreshTokenIsRejected ==
    (/\ authOut.handled
     /\ Protected(authOut.req.path)
     /\ VerifiedClaims(authOut.req, authOut.at) # None
     /\ VerifiedClaims(authOut.req, authOut.at)[1].type = "refresh")
    => authOut.code = 401 /\ authOut.state = None

-----------------------------------------------------------------------------
(* Properties of the tasks without a row *)

\* The job of submission k has produced its result.
SlResultProduced(k) ==
    /\ slJobs[k].submitted
    /\ AsyncResult(slQueue, slJobs[k].queue_id).state = "SUCCESS"

\* C11: once the worker has produced the result of an accepted background, SAM
\* or style job, polling with the task_id of the 202 response eventually
\* reports the result's status, completed or failed.
C11_PollFindsResult ==
    \A k \in SlKinds :
        SlResultProduced(k) ~>
            (slResp[k].status = AsyncResult(slQueue, slJobs[k].queue_id).status)

-----------------------------------------------------------------------------
(* Properties of the reconciler: failures, row fields *)

\* The job of a queue entry has ultimately failed.
JobFailed(c) ==
    \/ c.state = "FAILURE"
    \/ c.state = "SUCCESS" /\ c.result.status = "failed"

\* C12: a poll that finds a pending or processing row whose job has
\* ultimately failed, by a failed result or by a failure of the queue entry,
\* leaves the row failed with an error message, and answers with it.
C12_FailureIsReported ==
    [][\A p \in Pollers :
          (/\ poll[p].pc = "loaded"
           /\ poll'[p].pc # "loaded"
           /\ IsActive(poll[p].orm)
           /\ JobFailed(celery[poll[p].task]))
          => (poll'[p].orm.status = "failed" /\ poll'[p].orm.error # None)]_vars

-----------------------------------------------------------------------------
(* Properties of the worker *)

-----------------------------------------------------------------------------
(* Properties of editing *)

HistoryRow(id) == CHOOSE h \in edHist : h.id = id
JobOf(t) == CHOOSE j \in edJobs : j.task_id = t.id

\* The task row and the job of a replay carry what the history records.
SameAsRecorded(t, h) ==
    LET j == JobOf(t) IN
    /\ Some(t.prompt) = h.prompt /\ Some(j.prompt) = h.prompt
    /\ t.negative_prompt = h.negative_prompt
    /\ j.negative_prompt = OrEmpty(h.negative_prompt)
    /\ Some(t.strength) = h.strength /\ Some(j.strength) = h.strength
    /\ t.guidance_scale = h.edit_metadata.guidance_scale
    /\ j.guidance_scale = h.edit_metadata.guidance_scale
    /\ t.num_inference_steps = h.edit_metadata.num_inference_steps
    /\ j.num_inference_steps = h.edit_metadata.num_inference_steps
    /\ t.seed = h.edit_metadata.seed /\ j.seed = h.edit_metadata.seed
    /\ j.mask_data = DataUrl(edStore[h.mask_object_name[1]])

\* C14: the task row and the job that a replay creates carry the prompt,
\* negative prompt, strength, guidance scale, steps and seed recorded in the
\* EditHistory row (strength 0.0 included) and the stored mask bytes in
\* base64; two replays of one history have different task ids and the same
\* parameters.
C14_ReplayFidelity ==
    /\ \A t \in edTasks : t.source = "replay" =>
          SameAsRecorded(t, HistoryRow(t.history[1]))
    /\ \A t1, t2 \in edTasks :
          (t1.source = "replay" /\ t2.source = "replay" /\ t1.history = t2.history
             /\ t1.original_image_id # t2.original_image_id)
          => /\ t1.id # t2.id
             /\ [JobOf(t1) EXCEPT !.task_id = None, !.original_image = None]
                  = [JobOf(t2) EXCEPT !.task_id = None, !.original_image = None]

Owner(image_id) == (CHOOSE im \in edImages : im.id = image_id).user_id

\* C15: no EditHistory row refers, as original or as edited image, to an
\* Image of another user than its own, and no task is made for a submission
\* (inpaint or replay) that targets an image of another user.
C15_NoForeignImage ==
    /\ \A h \in edHist :
          /\ Owner(h.original_image_id) = h.user_id
          /\ Owner(h.edited_image_id) = h.user_id
    /\ \A t \in edTasks : Owner(t.original_image_id) = t.user_id

-----------------------------------------------------------------------------
(* Invariants of the task rows *)

\* C16: the result of a GenerationTask row is non-empty exactly when its
\* status is completed; a pending, processing or failed row has none.
C16_ResultIffCompleted ==
    \A t \in GenTaskIds :
        tasks[t].status # "absent" =>
            (tasks[t].result # None <=> tasks[t].status = "completed")

\* C17: a task row with completed_at set has started_at set, and started_at
\* is not later than completed_at.
C17_StartedBeforeCompleted ==
    \A t \in TaskIds :
        tasks[t].completed_at # None =>
            /\ tasks[t].started_at # None
            /\ tasks[t].started_at[1] <= tasks[t].completed_at[1]

-----------------------------------------------------------------------------
(* Properties of submission *)

Persisted(t) == sbRow[t] \in {"pending", "completed"}

\* C18: per task the order is persist(pending), enqueue, worker runs, result
\* written, reconciler promotes: the job of a task is on the queue, running
\* or done, or artifacts of it are stored, only when its pending row has been
\* committed, and a committed pending row has its job on the queue.
C18_PersistBeforeEnqueue ==
    \A t \in TaskIds :
        /\ (sbQueue[t] # "none" \/ sbStore[t]) => Persisted(t)
        /\ Persisted(t) => sbQueue[t] # "none"

-----------------------------------------------------------------------------
(* Properties of the worker's executions *)

\* C19: every execution of one job that returns, the first one and any later
\* one (after a retry or a redelivery), returns the same payload: the same
\* image ids, object keys and URLs.
C19_SamePayloadOnReexecution ==
    \A i, j \in 1..Len(wkLog) : wkLog[i].result = wkLog[j].result

\* C20: when the prompt of a job contains CJK characters and translation is
\* enabled, an execution whose translator answers gives the model the English
\* translation, and the payload it returns keeps the original prompt.
C20_TranslatedForTheModel ==
    (ENABLE_TRANSLATION /\ wk.phase # "none" /\ contains_cjk(wk.job.prompt)) =>
        \A i \in 1..Len(wkLog) :
            wkLog[i].translator = "answers" =>
                /\ wkLog[i].model_prompt = translate_to_english(wk.job.prompt, "answers")
                /\ ~contains_cjk(wkLog[i].model_prompt)
                /\ wkLog[i].result.original_prompt = Some(wk.job.prompt)

-----------------------------------------------------------------------------
(* Properties of the auth service *)

\* What the refresh endpoint has to find in a token to answer with a new pair.
RefreshAcceptable(token, t, users) ==
    /\ token.segments = 3
    /\ token.sig = Sign(token.claims, JWT_SECRET)
    /\ token.claims.exp >= t
    /\ token.claims.type = "refresh"
    /\ \E u \in users : u.id = token.claims.sub /\ u.is_active

\* C21: POST /auth/refresh answers with a new access and refresh token only
\* for a token that verifies, is unexpired, has kind refresh and whose user
\* exists and is active; every other token, a valid access token included,
\* is answered 401 and no token is issued.
C21_RefreshOnlyForRefreshTokens ==
    [][(auResp' # auResp /\ auResp'.handler = "refresh") =>
          IF RefreshAcceptable(auResp'.presented, now, auUsers)
          THEN /\ auResp'.code = 200
               /\ auResp'.tokens = create_tokens(
                      CHOOSE u \in auUsers : u.id = auResp'.presented.claims.sub, now)
               /\ auIssued' = auIssued \cup auResp'.tokens
          ELSE /\ auResp'.code = 401
               /\ auResp'.tokens = {}
               /\ auIssued' = auIssued]_vars

\* An unexpired access token was presented to the refresh endpoint and refused.
C21_Witness ==
    /\ auResp.handler = "refresh"
    /\ auResp.presented \in auIssued
    /\ auResp.presented.claims.type = "access"
    /\ auResp.presented.claims.exp >= now
    /\ auResp.code = 401

\* C22: at most one user exists per email, and a register request for an
\* email that is registered when the request is answered, the loser of two
\* concurrent registrations of one email included, is answered 400 and adds
\* no user.
C22_RegisteredEmailIs400 ==
    [][/\ \A u1, u2 \in auUsers' : u1.email = u2.email => u1 = u2
       /\ \A r \in RegSlots :
            (auReg[r].pc # "done" /\ auReg'[r].pc = "done"
               /\ get_user_by_email(auUsers, auReg'[r].email) # {})
            => (auReg'[r].code = 400 /\ auUsers' = auUsers)]_vars

\* C23: every token create_tokens hands out, access or refresh, carries sub,
\* role, exp and type; decoding it up to its expiry returns the claims that
\* were encoded; decoding it after its expiry, or with its signature not
\* made with the key, returns None.
C23_TokenRoundTrip ==
    \A token \in auIssued :
        /\ token.claims.type \in {"access", "refresh"}
        /\ token.claims.role # None
        /\ now <= token.claims.exp => decode_token(token, now) = Some(token.claims)
        /\ now > token.claims.exp => decode_token(token, now) = None
        /\ decode_token(Tampered(token), now) = None

-----------------------------------------------------------------------------
(* Properties of progress and submission *)

\* C24: the progress of GET /tasks/{id} is 100 for a completed task, 0 for a
\* failed one, 5 for a pending one, and for a processing one a value in
\* 5..95 equal to min(95, elapsed / estimated * 100).
C24_ProgressFormula ==
    /\ pgPoll.status = "completed" => pgPoll.progress = 100
    /\ pgPoll.status = "failed" => pgPoll.progress = 0
    /\ pgPoll.status = "pending" => pgPoll.progress = 5
    /\ pgPoll.status = "processing" =>
          /\ pgPoll.progress \in 5..95
          /\ pgPoll.progress =
                MinOf(95, (100 * pgPoll.elapsed * BasePixels)
                             \div (3 * pgPoll.width * pgPoll.height * pgPoll.num_images
                                     + 5 * BasePixels))

\* C25: every GenerationTask row has width and height that are multiples of
\* 8 in 256..2048, num_images in 1..4 and a seed that is absent or in
\* 0..2^31-1; a request that breaks one of these creates no row and no job.
C25_RowConstraints ==
    /\ \A row \in gnRows :
          /\ row.width % 8 = 0 /\ row.width \in 256..2048
          /\ row.height % 8 = 0 /\ row.height \in 256..2048
          /\ row.num_images \in 1..4
          /\ row.seed = None \/ (row.seed[1] >= 0 /\ row.seed[1] < Int32High)
    /\ gnJobs \subseteq gnRows

-----------------------------------------------------------------------------
(* Properties of the GPU telemetry *)

\* The sample the endpoint may report at time t: written less than 30
\* seconds before, available, with a GPU.
FreshSample(t) ==
    /\ gpuLast # None /\ t - gpuLast[1] < 30
    /\ gpuKey[1].value.available
    /\ gpuKey[1].value.primary_gpu # None

\* C26: GET /stats/ml/status reports sampled GPU values only from a key
\* written less than 30 seconds before; with the key absent or expired, or
\* holding available=false, the answer is the zeroed structure marked
\* available=false.
C26_StaleStatsAreZeroed ==
    [][gpuResp' # gpuResp =>
          IF FreshSample(now) /\ gpuResp'.redis_ok
          THEN gpuResp'.gpu.memory_used_gb = gpuKey[1].value.primary_gpu[1].memory_used_gb
          ELSE /\ gpuResp'.gpu.memory_used_gb = 0
               /\ gpuResp'.gpu.available = Some(FALSE)]_vars

-----------------------------------------------------------------------------
(* Properties of the proxy *)

\* C27: a proxied request whose upstream call fails is answered 503 for a
\* connect failure, 504 for a timeout and 500 for any other transport error,
\* with exactly one response and no byte of the upstream body; nothing is
\* sent to the client before the call has ended.
C27_OneErrorResponse ==
    /\ Len(pxSent) <= 1
    /\ px.pc # "idle" => pxSent = <<>>
    /\ (px.pc = "idle" /\ px.exc # "") =>
          /\ Len(pxSent) = 1
          /\ pxSent[1].body = <<>> /\ ~pxSent[1].upstream
          /\ px.exc = "ConnectError" => pxSent[1].code = 503
          /\ px.exc \in {"ConnectTimeout", "ReadTimeout"} => pxSent[1].code = 504
          /\ px.exc \in {"ReadError", "RemoteProtocolError"} => pxSent[1].code = 500

\* The upstream answered 200 and a chunk of its body was read when the read
\* timed out.
C27_Witness ==
    /\ px.pc = "idle" /\ px.exc = "ReadTimeout"
    /\ px.status = 200 /\ px.read = 1 /\ px.chunks = 2
    /\ Len(pxSent) = 1 /\ pxSent[1].code = 504

-----------------------------------------------------------------------------
(* Properties of the stored masks *)

\* The mask objects no EditHistory row refers to
Orphans ==
    {name \in DOMAIN edStore : ~\E h \in edHist : h.mask_object_name = Some(name)}

\* C28: once the EditHistory rows of a stored mask are deleted, the mask
\* object is eventually deleted from the store: a mask does not outlive its
\* rows for ever.
C28_MaskDeletedWithHistory == (Orphans # {}) ~> (Orphans = {})


-----------------------------------------------------------------------------
(* Properties of the object store's two endpoints *)

\* C29: for every task kind, no URL in a result payload returned to the
\* client (the url of an image, mask_url) is built on the internal endpoint
\* of the object store, and no URL the worker requests is built on the
\* external (browser) endpoint.
C29_EndpointsNeverCrossed ==
    /\ \A p \in urPayloads : p.url.base # InternalBase
    /\ \A f \in urFetched : f.url.base # MINIO_EXTERNAL_URL


-----------------------------------------------------------------------------
(* Properties of AuthMiddleware.dispatch *)

\* C30: dispatch passes a request on without verification only when its path
\* is public; for a request to any other path, such as /v1/images/generate,
\* that carries no Authorization header or one that is not a Bearer header,
\* it raises 401.
C30_OnlyPublicPathsSkipAuth ==
    (/\ authOut.handled
     /\ Protected(authOut.req.path)
     /\ \/ authOut.req.authorization = None
        \/ authOut.req.authorization[1].scheme # "Bearer")
    => authOut.code = 401


-----------------------------------------------------------------------------
(* Properties of the SAM, background and style jobs *)

\* C31: a SAM, background or style job whose body raises is retried, up to
\* max_retries times, before the failed result is reported: a failed result
\* in the queue entry means that max_retries + 1 executions raised (an
\* execution run again for a lost worker aside).
C31_PlainJobsRetryBeforeFailing ==
    pj.entry.status = "failed" =>
        /\ pj.retries = max_retries
        /\ pj.raised >= max_retries + 1


-----------------------------------------------------------------------------
(* Properties of the worker process and its pipelines *)

\* C32: when a job execution in which the pipeline ran its model has ended,
\* in success, in a retry or in the failed result, the GPU memory pool has
\* been emptied, so that it is empty when the next execution starts; and
\* the pipeline is still loaded.
C32_CleanupAfterEveryExecution ==
    (plRun.pc = "ended" /\ plRun.model) =>
        /\ plPool = "empty"
        /\ pl[plRun.kind].loaded

\* C33: the accessor of a pipeline returns one and the same instance at
\* every call; the model is not loaded before the first use and never again
\* once a load has succeeded; after a load failed no model call is made on
\* the unloaded instance: the next execution attempts the load again.
C33_OnePipelineLoadedOnce ==
    \A k \in PipelineKinds :
        /\ Cardinality(plSeen[k]) <= 1
        /\ pl[k].global # 0 => pl[k].global = pl[k].instance /\ plSeen[k] = {pl[k].global}
        /\ pl[k].loads <= 1
        /\ pl[k].loaded <=> pl[k].loads = 1
        /\ (plSeen[k] = {} /\ pl[k].instance = 0) => pl[k].attempts = 0
        /\ (plRun.kind = k /\ plRun.model) => ~plRun.unloaded /\ pl[k].loaded

\* A load of the generation model failed in one execution and succeeded in a
\* later one, and the pipeline was then used again without another load.
C33_Witness ==
    /\ plRun.kind = "generate" /\ plRun.pc = "upload"
    /\ pl["generate"].attempts = 2 /\ pl["generate"].loads = 1
    /\ plRun.executions = 3


-----------------------------------------------------------------------------
(* Properties of rejected submissions *)

ImageExists(image_id) == \E im \in edImages : im.id = image_id

\* Why POST /edit-history/{id}/replay turns a request away: the status, or
\* 0 when the history row and the target image allow the replay
ReplayRejection(x_user_id, history_id, target_image_id) ==
    LET found == {h \in edHist : h.id = history_id /\ h.user_id = HeaderUser(x_user_id)} IN
    IF found = {} THEN 404
    ELSE IF \E h \in found : h.mask_object_name = None THEN 400
    ELSE IF ~ImageExists(target_image_id) THEN 404
    ELSE 0

\* What a rejected submission must leave as it is
NothingCreated == UNCHANGED <<edTasks, edJobs, edImages, edHist, edStore, edNext, rjJobs>>

-----------------------------------------------------------------------------
(* Properties of the owner of a task *)

\* The user whose submission created the task rows (user_id of the row), and
\* the X-User-ID each poller's requests carry: p1 polls as the owner, the
\* other pollers as another user.
TaskOwner == "u1"
PollCaller(p) == IF p = "p1" THEN "u1" ELSE "u2"

\* C35: a poll of a task made with the identity of a user who does not own
\* the task is not answered with the task (it gets no 200 with the status
\* and result) and does not get as far as loading or changing the task row.
C35_OnlyOwnerSeesTask ==
    \A p \in Pollers :
        PollCaller(p) # TaskOwner =>
            /\ lastResp[p].code # 200
            /\ poll[p].pc = "idle"


-----------------------------------------------------------------------------
(* Properties of the gallery *)

\* The rows other than the one with this id stay as they are.
OthersUnchanged(image_id) ==
    {im \in gaImages : im.id # image_id} = {im \in gaImages' : im.id # image_id}

\* C36: get, favorite and delete of an image that is not the caller's are
\* answered 404 and change no row; a favorite toggle changes is_favorite of
\* the addressed row and nothing else, a delete removes the addressed row and
\* nothing else, both for the row's owner only; and two toggles of an image
\* made one after the other leave is_favorite as it was before them.
C36_GalleryActsOnOwnImages ==
    [][/\ \A s \in GaSessions, x \in HeaderUsers, im \in ImageIds :
            (/\ OwnImage(gaImages, im, HeaderUser(x)) = {}
             /\ \/ GaGet(s, x, im)
                \/ \E op \in GaOps : GaSelect(s, x, op, im))
            => gaResp'[s] = 404 /\ UNCHANGED <<gaImages, gaReq>>
       /\ \A s \in GaSessions :
            (GaCommit(s) /\ gaImages' # gaImages) =>
                LET r == gaReq[s] IN
                /\ OthersUnchanged(r.image)
                /\ r.row.user_id = HeaderUser(r.x)
                /\ \A im \in gaImages : im.id = r.image => im.user_id = HeaderUser(r.x)
                /\ r.op = "delete" => ~\E im \in gaImages' : im.id = r.image
                /\ r.op = "favorite" =>
                      \E im \in gaImages, new \in gaImages' :
                          /\ im.id = r.image
                          /\ new = [im EXCEPT !.is_favorite = new.is_favorite]
       /\ \A i \in ImageIds :
            Len(gaTrail'[i]) = 2 => gaTrail'[i][2].after = gaTrail'[i][1].before]_vars

\* u1 has toggled its image twice, one toggle after the other, the other
\* session's last request was answered 404, and the image of u2 is as it was.
C36_Witness ==
    /\ Len(gaTrail[ImageOfU1]) = 2
    /\ \E im \in gaImages : im.id = ImageOfU1 /\ ~im.is_favorite
    /\ \E im \in gaImages : im.id = ImageOfU2 /\ ~im.is_favorite
    /\ gaResp["s2"] = 404 /\ gaResp["s1"] = 200


-----------------------------------------------------------------------------
(* Properties of successive polls *)

\* C37: from one poll of a generation task to the next, while its status
\* moves from pending through processing to completed and time passes, the
\* progress returned does not decrease.
C37_ProgressNeverDecreases ==
    [][pgPoll.status # "none" => pgPoll'.progress >= pgPoll.progress]_vars

-----------------------------------------------------------------------------
(* Properties of late polls *)

\* C38: once the worker has finished the job of an accepted generation task,
\* the task row reaches a terminal status, given polls that keep coming,
\* however late the first one comes and also when the result has expired
\* from the result backend by then.
C38_FinishedTaskBecomesTerminal ==
    \A t \in GenTaskIds :
        (tasks[t].status # "absent" /\ Ready(celery[t])) ~> (tasks[t].status \in Terminal)

-----------------------------------------------------------------------------
(* Properties of the object store after a job *)

\* The objects that the result in the backend entry refers to
Referenced ==
    {wk.entry.result.images[i].object_name : i \in 1..Len(wk.entry.result.images)}

\* C39: once a generate or inpaint job has finished, after any retries and
\* with a failure possible at any upload, every object stored under the
\* task's prefix is one that the final result refers to. Jobs whose message
\* the broker delivered again are left aside: the retries alone are meant.
C39_NoOrphanArtifacts ==
    (wk.phase \in {"unacked", "acked"} /\ wk.redeliveries = 0)
        => wkStore \subseteq Referenced

-----------------------------------------------------------------------------
(* Properties of the records of the rate limiter *)

\* The step checks a request of client c on a path that is not excluded.
ChecksRequestOf(c) ==
    \E s \in Slots : \E req \in RequestsOf(c) :
        /\ req.path \notin ExcludedPaths
        /\ RLReject(s, req) \/ RLAdmit(s, req)

\* The step rejects a request of client c.
RejectsRequestOf(c) ==
    \E s \in Slots : \E req \in RequestsOf(c) : RLReject(s, req)

\* C40: a rate-limit check changes the record of the checked client only:
\* a record changes only in a check of a request of its own client on a path
\* that is not excluded, and a check that rejects adds no time to the record.
C40_CheckChangesOwnRecordOnly ==
    [][\A c \in Clients :
          /\ requests'[c] # requests[c] => ChecksRequestOf(c)
          /\ RejectsRequestOf(c) =>
                SeqToSet(requests'[c]) \subseteq SeqToSet(requests[c])]_vars

\* Client a has just been rejected with its record full while client b has
\* admissions on record and allowance left.
C40_Witness ==
    /\ rl["a"].verdict = "rejected"
    /\ Len(requests["a"]) = rate_limit
    /\ requests["b"] # <<>>
    /\ Len(requests["b"]) < rate_limit

=============================================================================
